---- MODULE Spec2Model ----
(***************************************************************************)
(* Incomiq backend: the fallback local persistence and credential layer.   *)
(*                                                                         *)
(*   local_auth.py     accounts registry (users.json), signup / login      *)
(*   auth.py           token registry (tokens.json), get_current_user      *)
(*   local_storage.py  one JSON file per (user_id, collection)             *)
(*   routes/*.py       request handlers that resolve the bearer credential *)
(*                     and then call the store                             *)
(*                                                                         *)
(* Every handler is modelled at the granularity of its file operations:    *)
(* Path.read_text is one step, Path.write_text is two (open("w") truncates *)
(* the file, the write then fills it), so that requests served by several  *)
(* worker processes interleave, and a crash falls, between them.           *)
(*                                                                         *)
(* Text is modelled as the tuple of its characters wherever the code looks *)
(* inside it (lower(), strip(), the e-mail pattern, substring tests).      *)
(***************************************************************************)
EXTENDS Integers, Sequences, FiniteSets, TLC

(***************************************************************************)
(* Bounds of the model                                                     *)
(***************************************************************************)
\* worker processes serving requests side by side
NumProcs == 2
\* random draws (account ids, salts, tokens, record ids) the model makes
MaxFresh == 3
\* records the collection files hold together at most
MaxDocs == 3

Procs == 1..NumProcs

(***************************************************************************)
(* Python text operations                                                  *)
(***************************************************************************)
LowerCaseLetters ==
    {"a","b","c","d","e","f","g","h","i","j","k","l","m",
     "n","o","p","q","r","s","t","u","v","w","x","y","z"}

UpperCaseLetters ==
    {"A","B","C","D","E","F","G","H","I","J","K","L","M",
     "N","O","P","Q","R","S","T","U","V","W","X","Y","Z"}

Digits == {"0","1","2","3","4","5","6","7","8","9"}

Whitespace == {" ", "\t", "\n", "\r"}

ToLower ==
    [c \in UpperCaseLetters |->
        CASE c = "A" -> "a" [] c = "B" -> "b" [] c = "C" -> "c" [] c = "D" -> "d"
          [] c = "E" -> "e" [] c = "F" -> "f" [] c = "G" -> "g" [] c = "H" -> "h"
          [] c = "I" -> "i" [] c = "J" -> "j" [] c = "K" -> "k" [] c = "L" -> "l"
          [] c = "M" -> "m" [] c = "N" -> "n" [] c = "O" -> "o" [] c = "P" -> "p"
          [] c = "Q" -> "q" [] c = "R" -> "r" [] c = "S" -> "s" [] c = "T" -> "t"
          [] c = "U" -> "u" [] c = "V" -> "v" [] c = "W" -> "w" [] c = "X" -> "x"
          [] c = "Y" -> "y" [] c = "Z" -> "z"]

\* str.lower()
lower(s) == [i \in 1..Len(s) |-> IF s[i] \in UpperCaseLetters THEN ToLower[s[i]] ELSE s[i]]

\* str.strip(): leading and trailing whitespace removed
strip(s) ==
    LET keep == {i \in 1..Len(s) : s[i] \notin Whitespace}
    IN  IF keep = {} THEN <<>>
        ELSE LET first == CHOOSE i \in keep : \A j \in keep : i <= j
                 last  == CHOOSE i \in keep : \A j \in keep : j <= i
             IN  SubSeq(s, first, last)

\* pattern in text
Contains(text, pattern) ==
    \E i \in 1..(Len(text) - Len(pattern) + 1) :
        SubSeq(text, i, i + Len(pattern) - 1) = pattern

\* text.endswith(suffix)
EndsWith(text, suffix) ==
    /\ Len(suffix) <= Len(text)
    /\ SubSeq(text, Len(text) - Len(suffix) + 1, Len(text)) = suffix

AllIn(s, chars) == \A i \in 1..Len(s) : s[i] \in chars

(***************************************************************************)
(* local_auth.py: validate_email                                           *)
(***************************************************************************)
VALID_EMAIL_DOMAINS ==
    << <<"g","m","a","i","l",".","c","o","m">>,
       <<"g","o","o","g","l","e","m","a","i","l",".","c","o","m">>,
       <<"y","a","h","o","o",".","c","o","m">>,
       <<"y","a","h","o","o",".","i","n">>,
       <<"y","a","h","o","o",".","c","o",".","i","n">>,
       <<"o","u","t","l","o","o","k",".","c","o","m">>,
       <<"h","o","t","m","a","i","l",".","c","o","m">>,
       <<"l","i","v","e",".","c","o","m">>,
       <<"m","s","n",".","c","o","m">>,
       <<"i","c","l","o","u","d",".","c","o","m">>,
       <<"m","e",".","c","o","m">>,
       <<"m","a","c",".","c","o","m">>,
       <<"p","r","o","t","o","n","m","a","i","l",".","c","o","m">>,
       <<"p","r","o","t","o","n",".","m","e">>,
       <<"a","o","l",".","c","o","m">>,
       <<"z","o","h","o",".","c","o","m">>,
       <<"z","o","h","o","m","a","i","l",".","i","n">>,
       <<"m","a","i","l",".","c","o","m">>,
       <<"g","m","x",".","c","o","m">>,
       <<"g","m","x",".","n","e","t">>,
       <<"y","a","n","d","e","x",".","c","o","m">>,
       <<"y","a","n","d","e","x",".","r","u">>,
       <<"r","e","d","i","f","f","m","a","i","l",".","c","o","m">>,
       <<"r","e","d","i","f","f",".","c","o","m">>,
       <<"i","n",".","c","o","m">>,
       <<"e","d","u">>,
       <<"a","c",".","i","n">>,
       <<"e","d","u",".","i","n">> >>
suspicious_patterns ==
    << <<"^","[","a","-","z","]","{","1","0",",","}","\\",".","c","o","m","$">>,
       <<"^","[","a","-","z","]","+","[","0","-","9","]","+","[","a","-","z","]","+","\\",".","c","o","m","$">>,
       <<"t","e","m","p">>,
       <<"f","a","k","e">>,
       <<"t","e","s","t">>,
       <<"e","x","a","m","p","l","e">>,
       <<"r","a","n","d","o","m">>,
       <<"a","s","d","f">> >>

\* re.match(r'^[a-zA-Z0-9._%+-]+@[a-zA-Z0-9.-]+\.[a-zA-Z]{2,}$', email)
EmailLocalChars == LowerCaseLetters \cup UpperCaseLetters \cup Digits \cup {".", "_", "%", "+", "-"}
EmailDomainChars == LowerCaseLetters \cup UpperCaseLetters \cup Digits \cup {".", "-"}

MatchesEmailPattern(email) ==
    \E at \in 1..Len(email) :
        /\ email[at] = "@"
        /\ at > 1
        /\ AllIn(SubSeq(email, 1, at - 1), EmailLocalChars)
        /\ \E dot \in (at + 2)..Len(email) :
              /\ email[dot] = "."
              /\ AllIn(SubSeq(email, at + 1, dot - 1), EmailDomainChars)
              /\ Len(email) - dot >= 2
              /\ AllIn(SubSeq(email, dot + 1, Len(email)),
                       LowerCaseLetters \cup UpperCaseLetters)

\* email.split('@')[1]
DomainOf(email) ==
    LET ats   == {i \in 1..Len(email) : email[i] = "@"}
        first == CHOOSE i \in ats : \A j \in ats : i <= j
        later == {i \in ats : i > first}
        stop  == IF later = {} THEN Len(email) + 1
                 ELSE CHOOSE i \in later : \A j \in later : i <= j
    IN  SubSeq(email, first + 1, stop - 1)

\* an allow-list that lets every domain through
AnyDomainAllowed(domain) == Len(domain) >= 0

\* the allow-list: an exact match, or a sub-domain of a listed domain
DomainAllowed(domain) ==
    \E k \in 1..Len(VALID_EMAIL_DOMAINS) :
        \/ domain = VALID_EMAIL_DOMAINS[k]
        \/ EndsWith(domain, <<".">> \o VALID_EMAIL_DOMAINS[k])

\* the deny-list. Every entry of suspicious_patterns is a str, the two
\* r'...' patterns included, so isinstance(pattern, str) holds for each and
\* each is tested as a plain substring of the domain.
DomainSuspicious(domain) ==
    \E k \in 1..Len(suspicious_patterns) : Contains(domain, suspicious_patterns[k])

InvalidEmailFormat == "Invalid email format"
InvalidEmailProvider == "Please use a valid email provider (gmail.com, yahoo.com, outlook.com, etc.)"

\* a validation in which a listed provider is accepted whatever else holds
validate_email_listed_first(raw) ==
    LET email == strip(lower(raw))
    IN  IF ~MatchesEmailPattern(email) THEN InvalidEmailFormat
        ELSE IF DomainAllowed(DomainOf(email)) THEN ""
        ELSE InvalidEmailProvider

\* the error message of validate_email, "" when the e-mail is accepted
validate_email(raw) ==
    LET email == strip(lower(raw))
    IN  IF ~MatchesEmailPattern(email) THEN InvalidEmailFormat
        ELSE IF DomainAllowed(DomainOf(email)) /\ ~DomainSuspicious(DomainOf(email))
             THEN ""
             ELSE InvalidEmailProvider

(***************************************************************************)
(* Python dict operations (a dict is a function; a key it lacks is a key   *)
(* outside its DOMAIN)                                                     *)
(***************************************************************************)
EmptyDict == <<>>

\* d[k] = v
DictPut(d, k, v) == [x \in DOMAIN d \cup {k} |-> IF x = k THEN v ELSE d[x]]

\* d.get(k, default)
DictGet(d, k, default) == IF k \in DOMAIN d THEN d[k] ELSE default

\* Optional values (None, or a value)
None == <<>>
Some(v) == <<v>>

(***************************************************************************)
(* Inputs of the requests                                                  *)
(***************************************************************************)
E_new_user == <<"n","e","w",".","u","s","e","r","@","g","m","a","i","l",".","c","o","m">>
E_new_user_variant == <<" ","N","e","w",".","U","s","e","r","@","G","m","a","i","l",".","C","O","M"," ">>
E_other == <<"v","@","y","a","h","o","o",".","i","n">>
E_bad == <<"b","a","d","@","f","a","k","e","t","e","s","t",".","c","o","m">>
E_listed_suspicious == <<"q","a","@","t","e","s","t",".","e","d","u">>
N_new_user == <<"N","e","w"," ","U","s","e","r">>
N_short == <<"X">>

Emails == {E_new_user, E_new_user_variant, E_other, E_bad, E_listed_suspicious}
Passwords == {"secret1", "12345"}
FullNames == {N_new_user, N_short}

(***************************************************************************)
(* State                                                                   *)
(***************************************************************************)
VARIABLES
    users_file,   \* data/users.json: [state, data], data the dict email -> account
    tokens_file,  \* data/tokens.json: [state, data], data the dict token -> email
    data_files,   \* data/<user_id>_<data_type>.json, by path: [state, data], data a list
    pc,           \* where each worker process stands in the request it serves
    call,         \* the request each worker serves, with its arguments
    loc,          \* the local variables of that request
    ret,          \* what the worker's last request returned or raised
    fresh,        \* how many random values have been drawn
    issued,       \* history: the successful signup and login responses
    demo_goals    \* routes/goals.py _demo_goals: each worker process's in-memory list

vars ==
    <<users_file, tokens_file, data_files, pc, call, loc, ret, fresh, issued, demo_goals>>

\* A file is "absent", "ok" (its text is the JSON of data) or "torn": opened
\* for writing and truncated, its text empty or a proper prefix of the JSON,
\* which json.loads rejects with JSONDecodeError.
Absent == [state |-> "absent", data |-> EmptyDict]
Torn == [state |-> "torn", data |-> EmptyDict]
Written(data) == [state |-> "ok", data |-> data]

(***************************************************************************)
(* Random values: secrets.token_hex, secrets.token_urlsafe, uuid4. The     *)
(* n-th draw of the run differs from every other draw.                     *)
(***************************************************************************)
\* secrets.token_hex(16)
generate_user_id(n) == "user-" \o ToString(n)

\* secrets.token_hex(16), the salt of _hash_password
generate_salt(n) == "salt-" \o ToString(n)

\* secrets.token_urlsafe(32): 43 characters
generate_token(n) == "token-urlsafe-0123456789abcdefghijklmnopq-" \o ToString(n)

\* str(uuid4())
uuid4(n) == "doc-" \o ToString(n)

\* hashlib.pbkdf2_hmac('sha256', password, salt, 100000).hex(): two inputs
\* give one digest only when they are the same inputs
hash_password(password, salt) == <<"pbkdf2", password, salt>>

(***************************************************************************)
(* local_auth.py and auth.py: reading the registries                       *)
(***************************************************************************)
\* a start that writes "{}" to users.json whether it exists or not
ensure_data_dir_afresh(file) == Written(EmptyDict)

\* _ensure_data_dir: users.json is created holding "{}" when it does not exist
ensure_data_dir(file) == IF file.state = "absent" THEN Written(EmptyDict) ELSE file

\* _load_users: the dict of users.json, {} when its text does not parse
load_users(file) == IF file.state = "ok" THEN file.data ELSE EmptyDict

\* _load_tokens: the dict of tokens.json, {} when absent or unparseable
load_tokens(file) == IF file.state = "ok" THEN file.data ELSE EmptyDict

DEMO_USER ==
    [id |-> "demo-user-001",
     email |-> <<"r","a","h","u","l","@","d","e","m","o",".","c","o","m">>,
     full_name |-> <<"R","a","h","u","l"," ","K","u","m","a","r">>,
     is_demo |-> TRUE]

HTTPException(status_code, detail) ==
    [raised |-> TRUE, status_code |-> status_code, detail |-> detail]

Returned(value) == [raised |-> FALSE, value |-> value]

Idle == [op |-> "idle"]
NoLocals == EmptyDict
NoResult == EmptyDict

CanStart(p) == pc[p] \in {"idle", "done"}

InFlight(p) == pc[p] \notin {"idle", "done"}

\* the request of p ends: it returns, or raises, r
Finish(p, r) ==
    /\ pc' = [pc EXCEPT ![p] = "done"]
    /\ loc' = [loc EXCEPT ![p] = NoLocals]
    /\ ret' = [ret EXCEPT ![p] = r]

\* the request of p goes on at `at` with the locals `locals`
Goto(p, at, locals) ==
    /\ pc' = [pc EXCEPT ![p] = at]
    /\ loc' = [loc EXCEPT ![p] = locals]
    /\ ret' = [ret EXCEPT ![p] = NoResult]

\* the draws left: a started signup or login makes one
CanDraw == fresh < MaxFresh

Init ==
    /\ users_file = Absent
    /\ tokens_file = Absent
    /\ data_files = EmptyDict
    /\ pc = [p \in Procs |-> "idle"]
    /\ call = [p \in Procs |-> Idle]
    /\ loc = [p \in Procs |-> NoLocals]
    /\ ret = [p \in Procs |-> NoResult]
    /\ fresh = 0
    /\ issued = {}
    /\ demo_goals = [p \in Procs |-> <<>>]

(***************************************************************************)
(* local_auth.py: signup, login, mark_account_active, ensure_admin_user    *)
(* auth.py: register_local_token                                           *)
(***************************************************************************)
\* a normalisation that trims and keeps the case: .strip() alone
normalize_email_keeping_case(email) == strip(email)

\* email.lower().strip()
normalize_email(email) == strip(lower(email))

\* len(password) < 6
password_too_short(password) == Len(password) < 6

\* not full_name or len(full_name.strip()) < 2
full_name_invalid(full_name) == full_name = <<>> \/ Len(strip(full_name)) < 2

\* the account signup stores (created_at, a timestamp nothing reads, left out)
new_account(user_id, email, full_name, password, salt) ==
    [id |-> user_id,
     email |-> email,
     full_name |-> strip(full_name),
     password_hash |-> hash_password(password, salt),
     password_salt |-> salt,
     is_new_account |-> TRUE]

signup_response(token, user_id, email, full_name) ==
    [access_token |-> token,
     user |-> [id |-> user_id, email |-> email, full_name |-> strip(full_name),
               isNewAccount |-> TRUE],
     message |-> "Account created successfully"]

login_response(token, user) ==
    [access_token |-> token,
     user |-> [id |-> user.id, email |-> user.email, full_name |-> user.full_name,
               isNewAccount |-> DictGet(user, "is_new_account", FALSE),
               isAdmin |-> DictGet(user, "is_admin", FALSE)]]

\* a comparison that hashes with a newly drawn salt instead of the stored one
password_mismatch_new_salt(user, password) ==
    hash_password(password, generate_salt(0)) # user.password_hash

\* hashed_password != user["password_hash"]
password_mismatch(user, password) ==
    hash_password(password, user.password_salt) # user.password_hash

\* a login that tells an unknown address from a wrong password
login_error_naming_cause(users, email, password) ==
    IF email \notin DOMAIN users THEN "No account found for this email"
    ELSE IF hash_password(password, users[email].password_salt) # users[email].password_hash
    THEN "Invalid email or password"
    ELSE ""

\* What login raises for the accounts `users`: "" when the credentials are right.
login_error(users, email, password) ==
    IF email \notin DOMAIN users THEN "Invalid email or password"
    ELSE IF password_mismatch(users[email], password) THEN "Invalid email or password"
    ELSE ""

\* routes/auth.py signup -> local_auth.signup, up to the call of
\* register_local_token: the checks, _load_users, the random draws
signup(p, raw_email, password, full_name) ==
    LET email == normalize_email(raw_email)
        error == validate_email(email)
        users == load_users(ensure_data_dir(users_file))
        n     == fresh + 1
    IN  /\ CanStart(p)
        /\ CanDraw
        /\ call' = [call EXCEPT ![p] = [op |-> "signup", email |-> raw_email,
                                        password |-> password, full_name |-> full_name]]
        /\ IF error # ""
           THEN Finish(p, HTTPException(400, error)) /\ UNCHANGED <<users_file, fresh>>
           ELSE IF password_too_short(password)
           THEN /\ Finish(p, HTTPException(400, "Password must be at least 6 characters"))
                /\ UNCHANGED <<users_file, fresh>>
           ELSE IF full_name_invalid(full_name)
           THEN /\ Finish(p, HTTPException(400, "Please enter your full name"))
                /\ UNCHANGED <<users_file, fresh>>
           ELSE /\ users_file' = ensure_data_dir(users_file)
                /\ IF email \in DOMAIN users
                   THEN /\ Finish(p, HTTPException(400, "An account with this email already exists"))
                        /\ UNCHANGED fresh
                   ELSE /\ fresh' = n
                        /\ Goto(p, "register_local_token",
                                [users |-> users, email |-> email,
                                 user_id |-> generate_user_id(n),
                                 salt |-> generate_salt(n),
                                 token |-> generate_token(n)])
        /\ UNCHANGED <<tokens_file, data_files, issued, demo_goals>>

\* routes/auth.py login -> local_auth.login, up to the call of register_local_token
login(p, raw_email, password) ==
    LET email == normalize_email(raw_email)
        users == load_users(ensure_data_dir(users_file))
        error == login_error(users, email, password)
        n     == fresh + 1
    IN  /\ CanStart(p)
        /\ CanDraw
        /\ call' = [call EXCEPT ![p] = [op |-> "login", email |-> raw_email,
                                        password |-> password]]
        /\ users_file' = ensure_data_dir(users_file)
        /\ IF error # ""
           THEN Finish(p, HTTPException(401, error)) /\ UNCHANGED fresh
           ELSE /\ fresh' = n
                /\ Goto(p, "register_local_token",
                        [email |-> email, user |-> users[email],
                         token |-> generate_token(n)])
        /\ UNCHANGED <<tokens_file, data_files, issued, demo_goals>>

\* register_local_token: tokens = _load_tokens(); tokens[token] = email
register_local_token(p) ==
    /\ pc[p] = "register_local_token"
    /\ Goto(p, "save_tokens",
            DictPut(loc[p], "tokens",
                    DictPut(load_tokens(tokens_file), loc[p].token, loc[p].email)))
    /\ UNCHANGED <<users_file, tokens_file, data_files, call, fresh, issued, demo_goals>>

\* _save_tokens, TOKENS_FILE.write_text: the file is opened and truncated
save_tokens_truncate(p) ==
    /\ pc[p] = "save_tokens"
    /\ tokens_file' = Torn
    /\ Goto(p, "save_tokens_write", loc[p])
    /\ UNCHANGED <<users_file, data_files, call, fresh, issued, demo_goals>>

\* the response of a successful signup or login is remembered, with the
\* email and password the request carried
Issue(via, email, password, user_id, token) ==
    issued' = issued \cup {[via |-> via, email |-> email, password |-> password,
                            id |-> user_id, token |-> token]}

\* _save_tokens, TOKENS_FILE.write_text: the text is written. signup goes on
\* to users[email] = {...}; login returns.
save_tokens_write(p) ==
    /\ pc[p] = "save_tokens_write"
    /\ tokens_file' = Written(loc[p].tokens)
    /\ IF call[p].op = "signup"
       THEN /\ Goto(p, "save_users",
                    DictPut(loc[p], "users",
                            DictPut(loc[p].users, loc[p].email,
                                    new_account(loc[p].user_id, loc[p].email,
                                                call[p].full_name, call[p].password,
                                                loc[p].salt))))
            /\ UNCHANGED issued
       ELSE /\ Finish(p, Returned(login_response(loc[p].token, loc[p].user)))
            /\ Issue("login", call[p].email, call[p].password, loc[p].user.id, loc[p].token)
    /\ UNCHANGED <<users_file, data_files, call, fresh, demo_goals>>

\* _save_users, USERS_FILE.write_text: the file is opened and truncated
save_users_truncate(p) ==
    /\ pc[p] = "save_users"
    /\ users_file' = Torn
    /\ Goto(p, "save_users_write", loc[p])
    /\ UNCHANGED <<tokens_file, data_files, call, fresh, issued, demo_goals>>

\* _save_users, USERS_FILE.write_text: the text is written, and the function
\* that saved returns
save_users_write(p) ==
    /\ pc[p] = "save_users_write"
    /\ users_file' = Written(loc[p].users)
    /\ IF call[p].op = "signup"
       THEN /\ Finish(p, Returned(signup_response(loc[p].token, loc[p].user_id,
                                                  loc[p].email, call[p].full_name)))
            /\ Issue("signup", call[p].email, call[p].password, loc[p].user_id, loc[p].token)
       ELSE /\ Finish(p, Returned(loc[p].result))
            /\ UNCHANGED issued
    /\ UNCHANGED <<tokens_file, data_files, call, fresh, demo_goals>>

\* mark_account_active
mark_account_active(p, raw_email) ==
    LET email == normalize_email(raw_email)
        users == load_users(ensure_data_dir(users_file))
    IN  /\ CanStart(p)
        /\ call' = [call EXCEPT ![p] = [op |-> "mark_account_active", email |-> raw_email]]
        /\ users_file' = ensure_data_dir(users_file)
        /\ IF email \in DOMAIN users
           THEN Goto(p, "save_users",
                     [users |-> [users EXCEPT ![email] =
                                    DictPut(users[email], "is_new_account", FALSE)],
                      result |-> None])
           ELSE Finish(p, Returned(None))
        /\ UNCHANGED <<tokens_file, data_files, fresh, issued, demo_goals>>

admin_email == <<"a","d","m","i","n","@","i","n","c","o","m","i","q",".","c","o","m">>
admin_password == "123456789"
admin_full_name == <<"A","d","m","i","n"," ","U","s","e","r">>

\* ensure_admin_user, run by main.py's lifespan when a worker process starts
ensure_admin_user(p) ==
    LET users == load_users(ensure_data_dir(users_file))
        n     == fresh + 1
        admin == [id |-> generate_user_id(n),
                  email |-> admin_email,
                  full_name |-> admin_full_name,
                  password_hash |-> hash_password(admin_password, generate_salt(n)),
                  password_salt |-> generate_salt(n),
                  is_new_account |-> FALSE,
                  is_admin |-> TRUE]
    IN  /\ CanStart(p)
        /\ CanDraw
        /\ call' = [call EXCEPT ![p] = [op |-> "ensure_admin_user"]]
        /\ users_file' = ensure_data_dir(users_file)
        /\ IF admin_email \notin DOMAIN users
           THEN /\ fresh' = n
                /\ Goto(p, "save_users",
                        [users |-> DictPut(users, admin_email, admin), result |-> admin])
           ELSE /\ UNCHANGED fresh
                /\ IF ~DictGet(users[admin_email], "is_admin", FALSE)
                   THEN Goto(p, "save_users",
                             [users |-> [users EXCEPT ![admin_email] =
                                            DictPut(users[admin_email], "is_admin", TRUE)],
                              result |-> DictPut(users[admin_email], "is_admin", TRUE)])
                   ELSE Finish(p, Returned(users[admin_email]))
        /\ UNCHANGED <<tokens_file, data_files, issued, demo_goals>>

(***************************************************************************)
(* auth.py: get_current_user                                               *)
(***************************************************************************)
Raise(exception) == [kind |-> "raise", exception |-> exception]

\* a lookup that consults the token registry before the demo sentinel
token_lookup_registry_first(credentials, file) ==
    IF credentials = None
    THEN Raise(HTTPException(401, "Not authenticated"))
    ELSE LET token == credentials[1]
             email == DictGet(load_tokens(file), token, None)
         IN  IF email # <<>>
             THEN [kind |-> "lookup", email |-> email]
             ELSE IF token = "demo-token"
             THEN [kind |-> "return", user |-> DEMO_USER]
             ELSE IF Len(token) > 20
             THEN Raise(HTTPException(401, "Invalid or expired token"))
             ELSE Raise(HTTPException(401, "Invalid token format"))

\* get_current_user down to tokens.get(token): what it raises or returns at
\* once, or the email it goes on to look up. USE_LOCAL_AUTH holds: no
\* Supabase project is configured.
token_lookup(credentials, file) ==
    IF credentials = None
    THEN Raise(HTTPException(401, "Not authenticated"))
    ELSE LET token == credentials[1]
         IN  IF token = "demo-token"
             THEN [kind |-> "return", user |-> DEMO_USER]
             ELSE IF Len(token) > 20
             THEN LET email == DictGet(load_tokens(file), token, None)
                  IN  IF email # <<>>
                      THEN [kind |-> "lookup", email |-> email]
                      ELSE Raise(HTTPException(401, "Invalid or expired token"))
             ELSE Raise(HTTPException(401, "Invalid token format"))

\* the identity get_current_user builds from the account
identity(email, user_data) ==
    [id |-> user_data.id,
     email |-> email,
     full_name |-> DictGet(user_data, "full_name", <<"U","s","e","r">>),
     is_demo |-> FALSE,
     is_new_account |-> DictGet(user_data, "is_new_account", FALSE),
     is_admin |-> DictGet(user_data, "is_admin", FALSE)]

\* a lookup that answers a missing account with the demo identity
user_lookup_demo_fallback(email, file) ==
    LET users == load_users(ensure_data_dir(file))
    IN  IF email \in DOMAIN users
        THEN [kind |-> "return", user |-> identity(email, users[email])]
        ELSE [kind |-> "return", user |-> DEMO_USER]

\* get_current_user from users = _load_users() on
user_lookup(email, file) ==
    LET users == load_users(ensure_data_dir(file))
    IN  IF email \in DOMAIN users
        THEN [kind |-> "return", user |-> identity(email, users[email])]
        ELSE Raise(HTTPException(401, "Invalid or expired token"))

\* get_current_user as a whole, on one reading of the two registries
resolve(credentials, tokens, users) ==
    LET first == token_lookup(credentials, tokens)
    IN  IF first.kind = "lookup" THEN user_lookup(first.email, users) ELSE first

\* the dependency has produced `user`: AuthResolver.resolve returns it, a
\* route handler starts its body with it
Authenticated(p, c, user) ==
    IF c.op = "get_current_user"
    THEN Finish(p, Returned(user))
    ELSE Goto(p, c.op, [user |-> user])

\* a request that Depends(get_current_user) arrives: the dependency runs down
\* to its reading of tokens.json
authenticate(p, c) ==
    LET first == token_lookup(c.credentials, tokens_file)
    IN  /\ CanStart(p)
        /\ call' = [call EXCEPT ![p] = c]
        /\ IF first.kind = "raise" THEN Finish(p, first.exception)
           ELSE IF first.kind = "return" THEN Authenticated(p, c, first.user)
           ELSE Goto(p, "get_current_user", [email |-> first.email])
        /\ UNCHANGED <<users_file, tokens_file, data_files, fresh, issued, demo_goals>>

\* get_current_user: users = _load_users(); user_data = users.get(email)
get_current_user_load_users(p) ==
    LET second == user_lookup(loc[p].email, users_file)
    IN  /\ pc[p] = "get_current_user"
        /\ users_file' = ensure_data_dir(users_file)
        /\ IF second.kind = "raise" THEN Finish(p, second.exception)
           ELSE Authenticated(p, call[p], second.user)
        /\ UNCHANGED <<tokens_file, data_files, call, fresh, issued, demo_goals>>

\* AuthResolver.resolve(credentials): get_current_user called for itself
get_current_user(p, credentials) ==
    authenticate(p, [op |-> "get_current_user", credentials |-> credentials])

(***************************************************************************)
(* local_storage.py                                                        *)
(***************************************************************************)
\* a path that leaves the user out of the file's name
get_user_file_shared(user_id, data_type) == "shared_" \o data_type \o ".json"

\* _get_user_file: DATA_DIR / f"{user_id}_{data_type}.json"
get_user_file(user_id, data_type) == user_id \o "_" \o data_type \o ".json"

\* _load_data of the file at path: [] when it is absent or does not parse
read_list(files, path) ==
    IF path \notin DOMAIN files THEN <<>>
    ELSE IF files[path].state = "ok" THEN files[path].data
    ELSE <<>>

\* _load_data
load_data(user_id, data_type) == read_list(data_files, get_user_file(user_id, data_type))

\* the records all the collection files hold together
RECURSIVE CountDocs(_, _)
CountDocs(files, paths) ==
    IF paths = {} THEN 0
    ELSE LET path == CHOOSE x \in paths : TRUE
         IN  Len(read_list(files, path)) + CountDocs(files, paths \ {path})

\* room for k more records within the model's bound
RoomFor(k) == CountDocs(data_files, DOMAIN data_files) + k <= MaxDocs

\* datetime.now().isoformat()
now == "datetime.now()"

\* a stamping that keeps the user_id a record arrives with
stamp_keeping_owner(user_id, record) ==
    LET owned == IF "user_id" \in DOMAIN record THEN record
                 ELSE DictPut(record, "user_id", user_id)
    IN  IF "created_at" \notin DOMAIN owned
        THEN DictPut(owned, "created_at", now)
        ELSE owned

\* add_income, add_expense: what the call does to the caller's record
stamp(user_id, record) ==
    LET owned == DictPut(record, "user_id", user_id)
    IN  IF "created_at" \notin DOMAIN owned
        THEN DictPut(owned, "created_at", now)
        ELSE owned

\* a removal of the first record with the id only
without_first_id(records, record_id) ==
    LET hits == {i \in 1..Len(records) :
                    "id" \in DOMAIN records[i] /\ records[i].id = record_id}
    IN  IF hits = {} THEN records
        ELSE LET first == CHOOSE i \in hits : \A j \in hits : i <= j
             IN  SubSeq(records, 1, first - 1) \o SubSeq(records, first + 1, Len(records))

\* the records that i.get("id") != record_id keeps
without_id(records, record_id) ==
    SelectSeq(records, LAMBDA i : ~("id" \in DOMAIN i /\ i.id = record_id))

\* an append that puts the record at the head of the list
add_record_locals_at_head(user_id, data_type, record) ==
    [path |-> get_user_file(user_id, data_type),
     loaded |-> load_data(user_id, data_type),
     data |-> <<stamp(user_id, record)>> \o load_data(user_id, data_type),
     result |-> stamp(user_id, record)]

\* add_income, add_expense down to incomes.append(income)
add_record_locals(user_id, data_type, record) ==
    [path |-> get_user_file(user_id, data_type),
     loaded |-> load_data(user_id, data_type),
     data |-> Append(load_data(user_id, data_type), stamp(user_id, record)),
     result |-> stamp(user_id, record)]

\* DocumentStore.append: add_income(user_id, income), add_expense(user_id, expense)
add_record(p, data_type, user_id, record) ==
    /\ CanStart(p)
    /\ RoomFor(1)
    /\ call' = [call EXCEPT ![p] = [op |-> "add_record", data_type |-> data_type,
                                    user_id |-> user_id, record |-> record]]
    /\ Goto(p, "save_data", add_record_locals(user_id, data_type, record))
    /\ UNCHANGED <<users_file, tokens_file, data_files, fresh, issued, demo_goals>>

\* a stamping of the records that takes them last to first
stamp_all_reversed(user_id, records) ==
    [i \in 1..Len(records) |-> stamp(user_id, records[Len(records) + 1 - i])]

\* the records of add_incomes_bulk's new_incomes, each stamped
stamp_all(user_id, records) == [i \in 1..Len(records) |-> stamp(user_id, records[i])]

\* DocumentStore.appendBulk: add_incomes_bulk, add_expenses_bulk
add_records_bulk(p, data_type, user_id, records) ==
    /\ CanStart(p)
    /\ RoomFor(Len(records))
    /\ call' = [call EXCEPT ![p] = [op |-> "add_records_bulk", data_type |-> data_type,
                                    user_id |-> user_id, records |-> records]]
    /\ IF records = <<>>
       THEN Finish(p, Returned(0))
       ELSE Goto(p, "save_data",
                 [path |-> get_user_file(user_id, data_type),
                  loaded |-> load_data(user_id, data_type),
                  data |-> load_data(user_id, data_type) \o stamp_all(user_id, records),
                  result |-> Len(records)])
    /\ UNCHANGED <<users_file, tokens_file, data_files, fresh, issued, demo_goals>>

\* DocumentStore.delete: delete_income, delete_expense
delete_record(p, data_type, user_id, record_id) ==
    LET records == load_data(user_id, data_type)
        kept    == without_id(records, record_id)
    IN  /\ CanStart(p)
        /\ call' = [call EXCEPT ![p] = [op |-> "delete_record", data_type |-> data_type,
                                        user_id |-> user_id, record_id |-> record_id]]
        /\ IF Len(kept) < Len(records)
           THEN Goto(p, "save_data",
                     [path |-> get_user_file(user_id, data_type),
                      loaded |-> records, data |-> kept, result |-> TRUE])
           ELSE Finish(p, Returned(FALSE))
        /\ UNCHANGED <<users_file, tokens_file, data_files, fresh, issued, demo_goals>>

\* DocumentStore.list: get_incomes, get_expenses, get_rules, get_goals
get_records(p, data_type, user_id) ==
    /\ CanStart(p)
    /\ call' = [call EXCEPT ![p] = [op |-> "get_records", data_type |-> data_type,
                                    user_id |-> user_id]]
    /\ Finish(p, Returned(load_data(user_id, data_type)))
    /\ UNCHANGED <<users_file, tokens_file, data_files, fresh, issued, demo_goals>>

\* _save_data, file_path.write_text: the file is opened and truncated
save_data_truncate(p) ==
    /\ pc[p] = "save_data"
    /\ data_files' = DictPut(data_files, loc[p].path, Torn)
    /\ Goto(p, "save_data_write", loc[p])
    /\ UNCHANGED <<users_file, tokens_file, call, fresh, issued, demo_goals>>

\* _save_data, file_path.write_text: the text is written; the call returns
save_data_write(p) ==
    /\ pc[p] = "save_data_write"
    /\ data_files' = DictPut(data_files, loc[p].path, Written(loc[p].data))
    /\ Finish(p, Returned(loc[p].result))
    /\ UNCHANGED <<users_file, tokens_file, call, fresh, issued, demo_goals>>

(***************************************************************************)
(* routes/incomes.py                                                       *)
(***************************************************************************)
\* POST /incomes arrives: Depends(get_current_user)
create_income_request(p, credentials, body) ==
    /\ CanDraw
    /\ authenticate(p, [op |-> "create_income", credentials |-> credentials,
                        body |-> body])

\* create_income: the record is built and add_income(user["id"], record)
\* runs down to incomes.append(income)
create_income(p) ==
    LET n      == fresh + 1
        user   == loc[p].user
        record == DictPut(DictPut(DictPut(call[p].body, "id", uuid4(n)),
                                  "user_id", user.id),
                          "created_at", now)
    IN  /\ pc[p] = "create_income"
        /\ fresh' = n
        /\ Goto(p, "save_data", add_record_locals(user.id, "incomes", record))
        /\ UNCHANGED <<users_file, tokens_file, data_files, call, issued, demo_goals>>

(***************************************************************************)
(* The process is killed and started again: the requests in progress and   *)
(* the lists held in memory are gone, the files are as the last write left *)
(* them.                                                                   *)
(***************************************************************************)
Crash ==
    /\ \E p \in Procs : InFlight(p)
    /\ pc' = [p \in Procs |-> "idle"]
    /\ call' = [p \in Procs |-> Idle]
    /\ loc' = [p \in Procs |-> NoLocals]
    /\ ret' = [p \in Procs |-> NoResult]
    /\ demo_goals' = [p \in Procs |-> <<>>]
    /\ UNCHANGED <<users_file, tokens_file, data_files, fresh, issued>>

(***************************************************************************)
(* routes/goals.py                                                         *)
(***************************************************************************)
\* str(n).zfill(width)
RECURSIVE ZeroPad(_, _)
ZeroPad(text, width) == IF Len(text) >= width THEN text ELSE ZeroPad("0" \o text, width)

\* a date text without the leading zeros: Y-M-D
isoformat_unpadded(d) ==
    ToString(d.year) \o "-" \o ToString(d.month) \o "-" \o ToString(d.day)

\* date.isoformat(): YYYY-MM-DD
isoformat(d) ==
    ZeroPad(ToString(d.year), 4) \o "-" \o ZeroPad(ToString(d.month), 2)
        \o "-" \o ZeroPad(ToString(d.day), 2)

\* the k-th uuid4 that _seed_demo_goals draws in worker p
seed_uuid4(p, k) == "uuid4-seed-" \o ToString(p) \o "-" \o ToString(k)

\* _seed_demo_goals: seeds
seeds ==
    << [name |-> "Emergency Fund", target_amount |-> 100000, target_date |-> "2025-12-31",
        icon |-> "shield", current_amount |-> 45000, monthly_contribution |-> 8000],
       [name |-> "New Laptop", target_amount |-> 75000, target_date |-> "2025-09-30",
        icon |-> "laptop", current_amount |-> 32000, monthly_contribution |-> 10000],
       [name |-> "Goa Vacation", target_amount |-> 50000, target_date |-> "2025-08-15",
        icon |-> "palmtree", current_amount |-> 18000, monthly_contribution |-> 6000] >>

\* _seed_demo_goals: the list of worker p after the call
seed_demo_goals(p) ==
    IF demo_goals[p] # <<>> THEN demo_goals[p]
    ELSE [k \in 1..Len(seeds) |->
            [id |-> seed_uuid4(p, k),
             user_id |-> "demo-user-001",
             name |-> seeds[k].name,
             target_amount |-> seeds[k].target_amount,
             current_amount |-> seeds[k].current_amount,
             target_date |-> seeds[k].target_date,
             icon |-> seeds[k].icon,
             monthly_contribution |-> seeds[k].monthly_contribution,
             created_at |-> now]]

\* user.get("is_demo")
is_demo(user) == DictGet(user, "is_demo", FALSE)

Min(a, b) == IF a <= b THEN a ELSE b

\* the first of the positions `hits` of a list, 0 when there is none: where
\* a loop over the list that returns at the first match stops
FirstIndex(hits) ==
    IF hits = {} THEN 0
    ELSE CHOOSE i \in hits : \A j \in hits : i <= j

\* the locals of a route that has changed its list and calls save_goals / save_rules
save_locals(user_id, data_type, data, result) ==
    [path |-> get_user_file(user_id, data_type),
     loaded |-> load_data(user_id, data_type),
     data |-> data,
     result |-> result]

\* GET /goals arrives: Depends(get_current_user)
list_goals_request(p, credentials) ==
    authenticate(p, [op |-> "list_goals", credentials |-> credentials])

\* list_goals
list_goals(p) ==
    LET user == loc[p].user
    IN  /\ pc[p] = "list_goals"
        /\ IF is_demo(user)
           THEN /\ demo_goals' = [demo_goals EXCEPT ![p] = seed_demo_goals(p)]
                /\ Finish(p, Returned([goals |->
                        SelectSeq(seed_demo_goals(p), LAMBDA g : g.user_id = user.id)]))
           ELSE /\ Finish(p, Returned([goals |-> load_data(user.id, "goals")]))
                /\ UNCHANGED demo_goals
        /\ UNCHANGED <<users_file, tokens_file, data_files, call, fresh, issued>>

\* POST /goals arrives: Depends(get_current_user)
create_goal_request(p, credentials, body) ==
    /\ CanDraw
    /\ authenticate(p, [op |-> "create_goal", credentials |-> credentials,
                        body |-> body])

\* create_goal down to goals.append(record)
create_goal(p) ==
    LET n      == fresh + 1
        user   == loc[p].user
        body   == call[p].body
        record == [id |-> uuid4(n),
                   user_id |-> user.id,
                   name |-> body.name,
                   target_amount |-> body.target_amount,
                   current_amount |-> 0,
                   target_date |-> isoformat(body.target_date),
                   icon |-> body.icon,
                   monthly_contribution |-> body.monthly_contribution,
                   created_at |-> now]
    IN  /\ pc[p] = "create_goal"
        /\ fresh' = n
        /\ IF is_demo(user)
           THEN /\ demo_goals' = [demo_goals EXCEPT ![p] = Append(seed_demo_goals(p), record)]
                /\ Finish(p, Returned(record))
           ELSE /\ Goto(p, "save_data",
                        save_locals(user.id, "goals",
                                    Append(load_data(user.id, "goals"), record), record))
                /\ UNCHANGED demo_goals
        /\ UNCHANGED <<users_file, tokens_file, data_files, call, issued>>

\* a contribution that is added in full
contribute_unclamped(g, amount) ==
    [g EXCEPT !.current_amount = g.current_amount + amount]

\* g["current_amount"] = min(g["current_amount"] + body.amount, g["target_amount"])
contribute(g, amount) ==
    [g EXCEPT !.current_amount = Min(g.current_amount + amount, g.target_amount)]

\* POST /goals/{goal_id}/add-money arrives: Depends(get_current_user)
add_money_request(p, credentials, goal_id, amount) ==
    authenticate(p, [op |-> "add_money", credentials |-> credentials,
                     goal_id |-> goal_id, amount |-> amount])

\* add_money down to save_goals(user["id"], goals)
add_money(p) ==
    LET user    == loc[p].user
        goal_id == call[p].goal_id
        memory  == seed_demo_goals(p)
        m       == FirstIndex({k \in 1..Len(memory) :
                                  memory[k].id = goal_id /\ memory[k].user_id = user.id})
        goals   == load_data(user.id, "goals")
        i       == FirstIndex({k \in 1..Len(goals) : goals[k].id = goal_id})
    IN  /\ pc[p] = "add_money"
        /\ IF is_demo(user)
           THEN IF m # 0
                THEN /\ demo_goals' = [demo_goals EXCEPT ![p] =
                            [memory EXCEPT ![m] = contribute(memory[m], call[p].amount)]]
                     /\ Finish(p, Returned(contribute(memory[m], call[p].amount)))
                ELSE /\ demo_goals' = [demo_goals EXCEPT ![p] = memory]
                     /\ Finish(p, HTTPException(404, "Goal not found"))
           ELSE /\ UNCHANGED demo_goals
                /\ IF i # 0
                   THEN Goto(p, "save_data",
                             save_locals(user.id, "goals",
                                 [goals EXCEPT ![i] = contribute(goals[i], call[p].amount)],
                                 contribute(goals[i], call[p].amount)))
                   ELSE Finish(p, HTTPException(404, "Goal not found"))
        /\ UNCHANGED <<users_file, tokens_file, data_files, call, fresh, issued>>

\* DELETE /goals/{goal_id} arrives: Depends(get_current_user)
delete_goal_request(p, credentials, goal_id) ==
    authenticate(p, [op |-> "delete_goal", credentials |-> credentials,
                     goal_id |-> goal_id])

\* delete_goal down to save_goals(user["id"], new_goals)
delete_goal(p) ==
    LET user      == loc[p].user
        goal_id   == call[p].goal_id
        memory    == seed_demo_goals(p)
        kept      == SelectSeq(memory,
                               LAMBDA g : ~(g.id = goal_id /\ g.user_id = user.id))
        goals     == load_data(user.id, "goals")
        new_goals == SelectSeq(goals, LAMBDA g : g.id # goal_id)
    IN  /\ pc[p] = "delete_goal"
        /\ IF is_demo(user)
           THEN /\ demo_goals' = [demo_goals EXCEPT ![p] = kept]
                /\ IF Len(kept) = Len(memory)
                   THEN Finish(p, HTTPException(404, "Goal not found"))
                   ELSE Finish(p, Returned([ok |-> TRUE]))
           ELSE /\ UNCHANGED demo_goals
                /\ IF Len(new_goals) = Len(goals)
                   THEN Finish(p, HTTPException(404, "Goal not found"))
                   ELSE Goto(p, "save_data",
                             save_locals(user.id, "goals", new_goals, [ok |-> TRUE]))
        /\ UNCHANGED <<users_file, tokens_file, data_files, call, fresh, issued>>

(***************************************************************************)
(* routes/rules.py                                                         *)
(***************************************************************************)
\* POST /rules arrives: Depends(get_current_user)
create_rule_request(p, credentials, body) ==
    /\ CanDraw
    /\ authenticate(p, [op |-> "create_rule", credentials |-> credentials,
                        body |-> body])

\* create_rule down to save_rules(user["id"], rules)
create_rule(p) ==
    LET n      == fresh + 1
        user   == loc[p].user
        body   == call[p].body
        record == [id |-> uuid4(n),
                   user_id |-> user.id,
                   name |-> body.name,
                   conditions |-> <<body.condition>>,
                   action |-> body.action,
                   safety |-> body.safety,
                   is_active |-> TRUE,
                   priority |-> 1,
                   total_saved |-> 0,
                   times_triggered |-> 0,
                   last_triggered |-> None,
                   created_at |-> now]
    IN  /\ pc[p] = "create_rule"
        /\ fresh' = n
        /\ Goto(p, "save_data",
                save_locals(user.id, "rules",
                            Append(load_data(user.id, "rules"), record), record))
        /\ UNCHANGED <<users_file, tokens_file, data_files, call, issued, demo_goals>>

\* r["is_active"] = not r.get("is_active", True)
toggled(r) == DictPut(r, "is_active", ~DictGet(r, "is_active", TRUE))

\* POST /rules/{rule_id}/toggle arrives: Depends(get_current_user)
toggle_rule_request(p, credentials, rule_id) ==
    authenticate(p, [op |-> "toggle_rule", credentials |-> credentials,
                     rule_id |-> rule_id])

\* toggle_rule down to save_rules(user["id"], rules)
toggle_rule(p) ==
    LET user  == loc[p].user
        rules == load_data(user.id, "rules")
        i     == FirstIndex({k \in 1..Len(rules) : rules[k].id = call[p].rule_id})
    IN  /\ pc[p] = "toggle_rule"
        /\ IF i # 0
           THEN Goto(p, "save_data",
                     save_locals(user.id, "rules",
                                 [rules EXCEPT ![i] = toggled(rules[i])], toggled(rules[i])))
           ELSE Finish(p, HTTPException(404, "Rule not found"))
        /\ UNCHANGED <<users_file, tokens_file, data_files, call, fresh, issued, demo_goals>>

\* DELETE /rules/{rule_id} arrives: Depends(get_current_user)
delete_rule_request(p, credentials, rule_id) ==
    authenticate(p, [op |-> "delete_rule", credentials |-> credentials,
                     rule_id |-> rule_id])

\* a delete_rule that saves the list whether or not it removed a rule
delete_rule_saving_always(p) ==
    LET user      == loc[p].user
        rules     == load_data(user.id, "rules")
        new_rules == SelectSeq(rules, LAMBDA r : r.id # call[p].rule_id)
    IN  /\ pc[p] = "delete_rule"
        /\ Goto(p, "save_data", save_locals(user.id, "rules", new_rules, [ok |-> TRUE]))
        /\ UNCHANGED <<users_file, tokens_file, data_files, call, fresh, issued, demo_goals>>

\* delete_rule down to save_rules(user["id"], new_rules)
delete_rule(p) ==
    LET user      == loc[p].user
        rules     == load_data(user.id, "rules")
        new_rules == SelectSeq(rules, LAMBDA r : r.id # call[p].rule_id)
    IN  /\ pc[p] = "delete_rule"
        /\ IF Len(new_rules) = Len(rules)
           THEN Finish(p, HTTPException(404, "Rule not found"))
           ELSE Goto(p, "save_data",
                     save_locals(user.id, "rules", new_rules, [ok |-> TRUE]))
        /\ UNCHANGED <<users_file, tokens_file, data_files, call, fresh, issued, demo_goals>>

(***************************************************************************)
(* routes/admin.py                                                         *)
(***************************************************************************)
ADMIN_EMAILS ==
    {<<"a","d","m","i","n","@","i","n","c","o","m","i","q",".","c","o","m">>,
     <<"r","a","h","u","l","@","d","e","m","o",".","c","o","m">>}

\* get_admin_user: the identities that pass
is_admin_user(user) ==
    \/ DictGet(user, "is_admin", FALSE)
    \/ DictGet(user, "is_demo", FALSE)
    \/ DictGet(user, "email", None) \in ADMIN_EMAILS

\* anonymize_user_id: the user id stands for the four digits of
\* hash(user_id) % 10000, which differ per user id here
anonymize_user_id(user_id) == "USER_" \o user_id

\* the elements of a set, one after the other
RECURSIVE InOrder(_)
InOrder(S) ==
    IF S = {} THEN <<>>
    ELSE LET x == CHOOSE y \in S : TRUE IN <<x>> \o InOrder(S \ {x})

\* the lists of a list, joined
RECURSIVE Flatten(_)
Flatten(lists) == IF lists = <<>> THEN <<>> ELSE Head(lists) \o Flatten(Tail(lists))

\* list[:n]
FirstN(list, n) == SubSeq(list, 1, Min(n, Len(list)))

\* a reading of the accounts that keeps those with an incomes file only
get_all_users_data_with_incomes ==
    LET users_dict == load_users(ensure_data_dir(users_file))
        emails     == InOrder({e \in DOMAIN users_dict :
                          get_user_file(users_dict[e].id, "incomes") \in DOMAIN data_files})
    IN  [k \in 1..Len(emails) |-> [id |-> users_dict[emails[k]].id, email |-> emails[k]]]

\* get_all_users_data: the accounts of users.json, in the order InOrder
\* gives them (created_at, which only the users overview reads, left out)
get_all_users_data ==
    LET users_dict == load_users(ensure_data_dir(users_file))
        emails     == InOrder(DOMAIN users_dict)
    IN  [k \in 1..Len(emails) |-> [id |-> users_dict[emails[k]].id, email |-> emails[k]]]

\* get_user_incomes, get_user_expenses, get_user_rules: _USE_LOCAL holds
get_user_incomes(user_id) == load_data(user_id, "incomes")
get_user_expenses(user_id) == load_data(user_id, "expenses")
get_user_rules(user_id) == load_data(user_id, "rules")

\* sum(float(r.get("amount", 0)) for r in records)
RECURSIVE SumAmounts(_)
SumAmounts(records) ==
    IF records = <<>> THEN 0
    ELSE DictGet(Head(records), "amount", 0) + SumAmounts(Tail(records))

\* text > (datetime.now() - timedelta(days=days)).isoformat(): of the
\* timestamps and dates of the model's records, those taken at the time of
\* the call are within the last `days` days, the dates of 2025 are not
within(text, days) == text = now

\* round(total / parts, 2), in hundredths
RoundedQuotient(total, parts) == (2 * 100 * total + parts) \div (2 * parts)

\* the incomes of the last 90 days
recent_incomes(incomes) ==
    SelectSeq(incomes, LAMBDA inc : \/ within(DictGet(inc, "created_at", ""), 90)
                                    \/ within(DictGet(inc, "date", ""), 90))

\* get_admin_dashboard: the alert of a user, a list of one alert or of none
low_income_alert(user_id) ==
    LET recent == recent_incomes(get_user_incomes(user_id))
        total  == SumAmounts(recent)
    IN  IF recent # <<>> /\ total < 3 * 15000
        THEN << [user_id |-> anonymize_user_id(user_id),
                 avg_monthly_income |-> RoundedQuotient(total, 3),
                 period |-> "Last 3 months",
                 severity |-> IF total < 3 * 10000 THEN "high" ELSE "medium"] >>
        ELSE <<>>

\* get_admin_dashboard: the expenses of a user above 50000
large_transactions_of(user_id) ==
    LET large == SelectSeq(get_user_expenses(user_id),
                           LAMBDA exp : DictGet(exp, "amount", 0) > 50000)
    IN  [k \in 1..Len(large) |->
            [user_id |-> anonymize_user_id(user_id),
             amount |-> DictGet(large[k], "amount", 0),
             category |-> DictGet(large[k], "category", "unknown"),
             date |-> DictGet(large[k], "date", "unknown"),
             description |-> FirstN(DictGet(large[k], "description", ""), 50)]]

\* rule.get("condition", {}).get("field", "unknown")
rule_type(rule) == DictGet(DictGet(rule, "condition", EmptyDict), "field", "unknown")

\* the defaultdict(int) that counts each key of the list `keys`
Tally(keys) ==
    [key \in {keys[k] : k \in 1..Len(keys)} |->
        Cardinality({k \in 1..Len(keys) : keys[k] = key})]

\* get_admin_dashboard: the months of a user's incomes and their sums
monthly_income(user_id) ==
    LET incomes == get_user_incomes(user_id)
        month(inc) == FirstN(DictGet(inc, "date", DictGet(inc, "created_at", "")), 7)
    IN  [m \in {month(incomes[k]) : k \in 1..Len(incomes)} |->
            SumAmounts(SelectSeq(incomes, LAMBDA inc : month(inc) = m))]

\* get_admin_dashboard: what it returns (of monthly_data, the last 6 months:
\* the model's records have fewer months than that)
dashboard ==
    LET users    == get_all_users_data
        incomes  == Flatten([k \in 1..Len(users) |-> get_user_incomes(users[k].id)])
        expenses == Flatten([k \in 1..Len(users) |-> get_user_expenses(users[k].id)])
        rules    == Flatten([k \in 1..Len(users) |-> get_user_rules(users[k].id)])
        active(user_id) ==
            \/ \E k \in 1..Len(get_user_incomes(user_id)) :
                  within(DictGet(get_user_incomes(user_id)[k], "created_at", ""), 30)
            \/ \E k \in 1..Len(get_user_expenses(user_id)) :
                  within(DictGet(get_user_expenses(user_id)[k], "created_at", ""), 30)
        trending == SelectSeq(FirstN(users, 10),
                              LAMBDA user : get_user_incomes(user.id) # <<>>)
    IN  [summary |->
            [total_users |-> Len(users),
             active_users_30d |-> Cardinality({k \in 1..Len(users) : active(users[k].id)}),
             total_income |-> SumAmounts(incomes),
             total_expenses |-> SumAmounts(expenses),
             total_savings |-> SumAmounts(incomes) - SumAmounts(expenses)],
         income_trends |->
            [k \in 1..Len(trending) |->
                [user_id |-> anonymize_user_id(trending[k].id),
                 monthly_data |-> monthly_income(trending[k].id)]],
         low_income_alerts |->
            FirstN(Flatten([k \in 1..Len(users) |-> low_income_alert(users[k].id)]), 10),
         large_transactions |->
            FirstN(Flatten([k \in 1..Len(users) |-> large_transactions_of(users[k].id)]), 20),
         rule_usage |-> Tally([k \in 1..Len(rules) |-> rule_type(rules[k])]),
         timestamp |-> now]

\* a route that Depends(get_admin_user) and reads: it raises 403 for an
\* identity that is no admin, and returns `result` otherwise
admin_read(p, op, result) ==
    /\ pc[p] = op
    /\ IF is_admin_user(loc[p].user)
       THEN /\ users_file' = ensure_data_dir(users_file)
            /\ Finish(p, Returned(result))
       ELSE /\ UNCHANGED users_file
            /\ Finish(p, HTTPException(403, "Admin access required"))
    /\ UNCHANGED <<tokens_file, data_files, call, fresh, issued, demo_goals>>

\* GET /admin/dashboard arrives: Depends(get_current_user)
get_admin_dashboard_request(p, credentials) ==
    authenticate(p, [op |-> "get_admin_dashboard", credentials |-> credentials])

\* get_admin_user and get_admin_dashboard
get_admin_dashboard(p) == admin_read(p, "get_admin_dashboard", dashboard)

\* get_rule_analytics: what it returns (condition_types is sorted by count;
\* the order of a dict is not kept here)
rule_analytics ==
    LET users == get_all_users_data
        rules == Flatten([k \in 1..Len(users) |-> get_user_rules(users[k].id)])
        condition_type(rule) ==
            DictGet(DictGet(rule, "condition", EmptyDict), "field", "unknown")
                \o "_" \o DictGet(DictGet(rule, "condition", EmptyDict), "operator", "unknown")
        action_type(rule) == DictGet(rule, "action_type", "unknown")
    IN  [total_rules |-> Len(rules),
         active_rules |->
            Cardinality({k \in 1..Len(rules) : DictGet(rules[k], "is_active", TRUE)}),
         rule_types |-> Tally([k \in 1..Len(rules) |-> action_type(rules[k])]),
         condition_types |-> Tally([k \in 1..Len(rules) |-> condition_type(rules[k])]),
         avg_rules_per_user |->
            RoundedQuotient(Len(rules), IF Len(users) > 1 THEN Len(users) ELSE 1),
         most_common_rules |-> <<>>]

\* GET /admin/analytics/rules arrives: Depends(get_current_user)
get_rule_analytics_request(p, credentials) ==
    authenticate(p, [op |-> "get_rule_analytics", credentials |-> credentials])

\* get_admin_user and get_rule_analytics
get_rule_analytics(p) == admin_read(p, "get_rule_analytics", rule_analytics)

\* list.sort(key=lambda x: x["amount"], reverse=True): a stable sort
RECURSIVE sorted_by_amount(_)
sorted_by_amount(list) ==
    IF list = <<>> THEN <<>>
    ELSE LET first == FirstIndex({k \in 1..Len(list) :
                                     \A j \in 1..Len(list) : list[j].amount <= list[k].amount})
         IN  <<list[first]>>
                \o sorted_by_amount(SubSeq(list, 1, first - 1)
                                        \o SubSeq(list, first + 1, Len(list)))

\* get_compliance_checks: the expenses of a user of min_amount and more
flagged_of(user_id, min_amount) ==
    LET flagged == SelectSeq(get_user_expenses(user_id),
                             LAMBDA exp : DictGet(exp, "amount", 0) >= min_amount)
    IN  [k \in 1..Len(flagged) |->
            [user_id |-> anonymize_user_id(user_id),
             transaction_id |-> DictGet(flagged[k], "id", "unknown"),
             amount |-> DictGet(flagged[k], "amount", 0),
             category |-> DictGet(flagged[k], "category", "unknown"),
             description |-> FirstN(DictGet(flagged[k], "description", ""), 100),
             date |-> DictGet(flagged[k], "date", "unknown"),
             flag_reason |-> IF DictGet(flagged[k], "amount", 0) < 100000
                             THEN "Large transaction"
                             ELSE "Very large transaction - review required"]]

\* get_compliance_checks: what it returns
compliance_checks(min_amount) ==
    LET users   == get_all_users_data
        flagged == Flatten([k \in 1..Len(users) |-> flagged_of(users[k].id, min_amount)])
    IN  [total_flagged |-> Len(flagged),
         threshold |-> min_amount,
         transactions |-> FirstN(sorted_by_amount(flagged), 50)]

\* GET /admin/compliance/transactions arrives: Depends(get_current_user)
get_compliance_checks_request(p, credentials, min_amount) ==
    authenticate(p, [op |-> "get_compliance_checks", credentials |-> credentials,
                     min_amount |-> min_amount])

\* get_admin_user and get_compliance_checks
get_compliance_checks(p) ==
    admin_read(p, "get_compliance_checks", compliance_checks(call[p].min_amount))

(***************************************************************************)
(* Specifications                                                          *)
(***************************************************************************)
\* what a client may present as its bearer credential: nothing, the demo
\* sentinel, a short and a long string that are no token, and any token the
\* registry holds or a response carried
forged_token == "forged-0123456789abcdefghijklmnopqrstuvwxyz"

Credentials ==
    {None, Some("demo-token"), Some("short-token"), Some(forged_token)}
        \cup {Some(r.token) : r \in issued}
        \cup {Some(t) : t \in DOMAIN load_tokens(tokens_file)}

IncomeBodies ==
    {[amount |-> 500, source_name |-> "Upwork", category |-> "freelance",
      date |-> "2025-01-15", description |-> ""]}

StoreUsers == {"user-1", "user-2"}
DataTypes == {"incomes", "expenses"}

R_a == [id |-> "doc-a", amount |-> 100]
R_b == [id |-> "doc-b", amount |-> 200, user_id |-> "user-2",
        created_at |-> "2025-01-01T00:00:00"]
R_c == [amount |-> 300]
Records == {R_a, R_b, R_c}
RecordIds == {"doc-a", "doc-b"}
Bulks == {<<>>, <<R_a, R_b>>}

\* the steps in which a request in progress goes on
ContinueAuth(p) ==
    \/ register_local_token(p)
    \/ save_tokens_truncate(p)
    \/ save_tokens_write(p)
    \/ save_users_truncate(p)
    \/ save_users_write(p)
    \/ get_current_user_load_users(p)

ContinueStore(p) ==
    \/ save_data_truncate(p)
    \/ save_data_write(p)

\* a request arrives at worker p
ArriveAuth(p) ==
    \/ \E e \in Emails, pw \in Passwords, n \in FullNames : signup(p, e, pw, n)
    \/ \E e \in Emails, pw \in Passwords : login(p, e, pw)
    \/ \E e \in Emails : mark_account_active(p, e)
    \/ ensure_admin_user(p)
    \/ \E c \in Credentials : get_current_user(p, c)

ArriveStore(p) ==
    \/ \E t \in DataTypes, u \in StoreUsers, r \in Records : add_record(p, t, u, r)
    \/ \E t \in DataTypes, u \in StoreUsers, rs \in Bulks : add_records_bulk(p, t, u, rs)
    \/ \E t \in DataTypes, u \in StoreUsers, i \in RecordIds : delete_record(p, t, u, i)
    \/ \E t \in DataTypes, u \in StoreUsers : get_records(p, t, u)

ArriveRoute(p) ==
    \E c \in Credentials, b \in IncomeBodies : create_income_request(p, c, b)

Quiescent == \A p \in Procs : ~InFlight(p)

\* Every request on every worker, the workers interleaving at each file
\* operation, the process crashing at any point.
Next ==
    \/ \E p \in Procs : ArriveAuth(p) \/ ArriveStore(p) \/ ArriveRoute(p)
    \/ \E p \in Procs : ContinueAuth(p) \/ ContinueStore(p) \/ create_income(p)
    \/ Crash

Spec == Init /\ [][Next]_vars

\* The credential layer, one request at a time.
NextAuthSeq == \E p \in {1} : ArriveAuth(p) \/ ContinueAuth(p)

SpecAuthSeq == Init /\ [][NextAuthSeq]_vars

\* The credential layer, one request at a time, the process crashing at any point.
NextAuthCrash ==
    \/ \E p \in {1} :
        \/ \E e \in {E_new_user, E_other} : signup(p, e, "secret1", N_new_user)
        \/ \E e \in {E_new_user, E_other} : login(p, e, "secret1")
        \/ ensure_admin_user(p)
        \/ \E c \in Credentials : get_current_user(p, c)
        \/ ContinueAuth(p)
    \/ Crash

SpecAuthCrash == Init /\ [][NextAuthCrash]_vars

\* Signups and logins on all the workers, each worker serving one request.
ConcurrentEmails == {E_new_user, E_new_user_variant, E_other}

NextAuthConcurrent ==
    \E p \in Procs :
        \/ pc[p] = "idle" /\ \E e \in ConcurrentEmails : signup(p, e, "secret1", N_new_user)
        \/ pc[p] = "idle" /\ \E e \in ConcurrentEmails : login(p, e, "secret1")
        \/ register_local_token(p)
        \/ save_tokens_truncate(p)
        \/ save_tokens_write(p)
        \/ save_users_truncate(p)
        \/ save_users_write(p)

SpecAuthConcurrent == Init /\ [][NextAuthConcurrent]_vars

\* The document store, one request at a time, the process crashing at any point.
NextStoreCrash == (\E p \in {1} : ArriveStore(p) \/ ContinueStore(p)) \/ Crash

SpecStoreCrash == Init /\ [][NextStoreCrash]_vars

\* Appends on all the workers, each worker serving one request.
NextAppendConcurrent ==
    \E p \in Procs :
        \/ /\ pc[p] = "idle"
           /\ \E t \in DataTypes, u \in StoreUsers, r \in Records : add_record(p, t, u, r)
        \/ save_data_truncate(p)
        \/ save_data_write(p)

SpecAppendConcurrent == Init /\ [][NextAppendConcurrent]_vars

\* Accounts sign up and post incomes, one request at a time.
NextRoutes ==
    \E p \in {1} :
        \/ \E e \in {E_new_user, E_other} : signup(p, e, "secret1", N_new_user)
        \/ ArriveRoute(p)
        \/ ContinueAuth(p)
        \/ create_income(p)
        \/ ContinueStore(p)

SpecRoutes == Init /\ [][NextRoutes]_vars

\* The accounts registry under concurrent requests: signups, logins, the admin
\* bootstrap of a starting worker, and markActive for an account that has
\* signed up, each worker serving one request after another.
NextAccountsConcurrent ==
    \E p \in Procs :
        \/ \E e \in {E_new_user, E_other} : signup(p, e, "secret1", N_new_user)
        \/ \E e \in {E_new_user, E_other} : login(p, e, "secret1")
        \/ \E r \in issued : r.via = "signup" /\ mark_account_active(p, r.email)
        \/ ensure_admin_user(p)
        \/ register_local_token(p)
        \/ save_tokens_truncate(p)
        \/ save_tokens_write(p)
        \/ save_users_truncate(p)
        \/ save_users_write(p)

SpecAccountsConcurrent == Init /\ [][NextAccountsConcurrent]_vars

\* The admin account: signups and logins that try the admin address, the
\* admin bootstrap, markActive and resolves, one request at a time.
E_admin == <<"A","d","m","i","n","@","I","n","c","o","m","i","q",".","c","o","m">>

NextAdminSeq ==
    \E p \in {1} :
        \/ \E e \in {E_new_user, E_admin} : signup(p, e, "secret1", N_new_user)
        \/ \E e \in {E_new_user, E_admin}, pw \in {"secret1", admin_password} : login(p, e, pw)
        \/ \E e \in {E_new_user, E_admin} : mark_account_active(p, e)
        \/ ensure_admin_user(p)
        \/ \E c \in Credentials : get_current_user(p, c)
        \/ ContinueAuth(p)

SpecAdminSeq == Init /\ [][NextAdminSeq]_vars

\* what POST /goals carries: GoalCreate
GoalBodies ==
    {[name |-> "Bike", target_amount |-> 100000,
      target_date |-> [year |-> 2026, month |-> 3, day |-> 9],
      icon |-> "piggy-bank", monthly_contribution |-> 0],
     [name |-> "Trip", target_amount |-> 50000,
      target_date |-> [year |-> 2025, month |-> 12, day |-> 31],
      icon |-> "plane", monthly_contribution |-> 2500]}

\* AddMoneyRequest.amount
Amounts == {60000}

\* the bearer credentials of the goal and rule requests: none, the demo
\* sentinel, and the tokens signup and login returned
RouteCredentials == {None, Some("demo-token")} \cup {Some(r.token) : r \in issued}

\* the ids of the records `records` holds
IdsOf(records) == {records[i].id : i \in {j \in 1..Len(records) : "id" \in DOMAIN records[j]}}

\* the ids a client may name: those of the stored records, of the records
\* the demo identity created, of the first seeded goal, and one of no record
KnownIds ==
    UNION {IdsOf(read_list(data_files, path)) : path \in DOMAIN data_files}
        \cup {uuid4(n) : n \in 1..fresh}
        \cup {seed_uuid4(p, 1) : p \in Procs}
        \cup {"no-such-id"}

ContinueGoals(p) ==
    \/ list_goals(p)
    \/ create_goal(p)
    \/ add_money(p)
    \/ delete_goal(p)

\* An account signs up and it and the demo identity work on their goals, one
\* request at a time.
NextGoalsSeq ==
    \E p \in {1} :
        \/ signup(p, E_new_user, "secret1", N_new_user)
        \/ \E c \in RouteCredentials : list_goals_request(p, c)
        \/ \E c \in RouteCredentials, b \in GoalBodies : create_goal_request(p, c, b)
        \/ \E c \in RouteCredentials, i \in KnownIds, a \in Amounts :
              add_money_request(p, c, i, a)
        \/ \E c \in RouteCredentials, i \in KnownIds : delete_goal_request(p, c, i)
        \/ ContinueAuth(p)
        \/ ContinueGoals(p)
        \/ ContinueStore(p)

SpecGoalsSeq == Init /\ [][NextGoalsSeq]_vars

\* An account signs up and it and the demo identity add goals and list them,
\* one request at a time.
NextGoalAppend ==
    \E p \in {1} :
        \/ signup(p, E_new_user, "secret1", N_new_user)
        \/ \E c \in RouteCredentials : list_goals_request(p, c)
        \/ \E c \in RouteCredentials, b \in GoalBodies : create_goal_request(p, c, b)
        \/ ContinueAuth(p)
        \/ list_goals(p)
        \/ create_goal(p)
        \/ ContinueStore(p)

SpecGoalAppend == Init /\ [][NextGoalAppend]_vars

\* The document store, one request at a time.
NextStoreSeq == \E p \in {1} : ArriveStore(p) \/ ContinueStore(p)

SpecStoreSeq == Init /\ [][NextStoreSeq]_vars

\* what POST /rules carries: SavingsRuleCreate
RuleBodies ==
    {[name |-> "Save 20% of freelance income",
      condition |-> [field |-> "income_category", operator |-> "equals", value |-> 0],
      action |-> [type |-> "percentage", value |-> 20, destination |-> "Emergency Fund"],
      safety |-> [min_balance |-> 5000, min_income |-> 10000]]}

\* the tokens of the accounts signed up
AccountCredentials == {Some(r.token) : r \in issued}

\* the credentials of the requests that write files: the demo token and the
\* tokens of the accounts signed up
WriterCredentials == {Some("demo-token")} \cup AccountCredentials

\* the ids of the records the files hold
StoredIds == UNION {IdsOf(read_list(data_files, path)) : path \in DOMAIN data_files}

\* All four collections, one request at a time: the store's appends with
\* records that name another user, and the routes that create and rewrite
\* the records of the files: incomes and rules of an account and of the demo
\* identity, goals of an account.
NextCollections ==
    \E p \in {1} :
        \/ signup(p, E_new_user, "secret1", N_new_user)
        \/ add_record(p, "expenses", "user-1", R_b)
        \/ add_records_bulk(p, "expenses", "user-1", <<R_a, R_b>>)
        \/ \E c \in WriterCredentials, b \in IncomeBodies : create_income_request(p, c, b)
        \/ \E c \in AccountCredentials, b \in GoalBodies : create_goal_request(p, c, b)
        \/ \E c \in WriterCredentials, b \in RuleBodies : create_rule_request(p, c, b)
        \/ \E c \in AccountCredentials, i \in StoredIds, a \in Amounts :
              add_money_request(p, c, i, a)
        \/ \E c \in WriterCredentials, i \in StoredIds : toggle_rule_request(p, c, i)
        \/ ContinueAuth(p)
        \/ create_income(p)
        \/ create_goal(p)
        \/ add_money(p)
        \/ create_rule(p)
        \/ toggle_rule(p)
        \/ ContinueStore(p)

SpecCollections == Init /\ [][NextCollections]_vars

\* An account signs up and it and the demo identity create goals and add
\* money to them, one request at a time.
NextGoalMoney ==
    \E p \in {1} :
        \/ signup(p, E_new_user, "secret1", N_new_user)
        \/ \E c \in WriterCredentials, b \in GoalBodies : create_goal_request(p, c, b)
        \/ \E c \in WriterCredentials, i \in KnownIds, a \in Amounts :
              add_money_request(p, c, i, a)
        \/ ContinueAuth(p)
        \/ create_goal(p)
        \/ add_money(p)
        \/ ContinueStore(p)

SpecGoalMoney == Init /\ [][NextGoalMoney]_vars

\* worker 1 is in its first append, that of R_a
AppendingFirst == call[1].op = "add_record" /\ call[1].record = R_a /\ pc[1] # "done"

\* One partition under concurrent calls. Worker 1 first appends R_a while
\* nothing else runs; then every worker serves one call on the partition:
\* an append of another record, a delete of R_a's or of R_b's id, or a list.
NextStoreConcurrent ==
    \/ /\ \A p \in Procs : pc[p] = "idle"
       /\ add_record(1, "incomes", "user-1", R_a)
    \/ \E p \in Procs :
          /\ call[1].op # "idle" /\ ~AppendingFirst
          /\ \/ pc[p] = "idle"
             \/ p = 1 /\ call[1].op = "add_record" /\ call[1].record = R_a
          /\ \/ \E r \in {R_b, R_c} : add_record(p, "incomes", "user-1", r)
             \/ \E i \in RecordIds : delete_record(p, "incomes", "user-1", i)
             \/ get_records(p, "incomes", "user-1")
    \/ \E p \in Procs : save_data_truncate(p) \/ save_data_write(p)

SpecStoreConcurrent == Init /\ [][NextStoreConcurrent]_vars

\* get_compliance_checks: min_amount, its default and a small one
MinAmounts == {50000, 200}

\* Two accounts sign up, incomes and expenses are appended for them, they
\* create rules, and the demo identity and the accounts ask for the admin
\* reports, one request at a time, the process crashing during any write of
\* a collection file.
NextAdminReports ==
    \/ \E p \in {1} :
        \/ \E e \in {E_new_user, E_other} : signup(p, e, "secret1", N_new_user)
        \/ \E u \in StoreUsers : add_record(p, "incomes", u, R_a)
        \/ \E u \in StoreUsers : add_record(p, "expenses", u, R_b)
        \/ \E c \in AccountCredentials, b \in RuleBodies : create_rule_request(p, c, b)
        \/ \E c \in WriterCredentials : get_admin_dashboard_request(p, c)
        \/ get_rule_analytics_request(p, Some("demo-token"))
        \/ \E m \in MinAmounts : get_compliance_checks_request(p, Some("demo-token"), m)
        \/ ContinueAuth(p)
        \/ ContinueStore(p)
        \/ create_rule(p)
        \/ get_admin_dashboard(p)
        \/ get_rule_analytics(p)
        \/ get_compliance_checks(p)
    \/ (\E p \in Procs : pc[p] \in {"save_data", "save_data_write"}) /\ Crash

SpecAdminReports == Init /\ [][NextAdminReports]_vars

\* the ids a request may name: those of the stored records, that of the
\* first seeded goal, and one of no record
NamedIds == StoredIds \cup {seed_uuid4(1, 1), "no-such-id"}

\* An account signs up, creates a goal and a rule and has an income
\* appended, and ids of records of any partition and of none are named to
\* delete incomes, by the account and the demo identity to add money to
\* goals, and by the account to delete goals and to toggle and delete
\* rules, one request at a time.
NextNotFound ==
    \E p \in {1} :
        \/ signup(p, E_new_user, "secret1", N_new_user)
        \/ add_record(p, "incomes", "user-1", R_a)
        \/ \E c \in AccountCredentials, b \in GoalBodies : create_goal_request(p, c, b)
        \/ \E c \in AccountCredentials, b \in RuleBodies : create_rule_request(p, c, b)
        \/ \E i \in NamedIds : delete_record(p, "incomes", "user-1", i)
        \/ \E c \in WriterCredentials, i \in NamedIds, a \in Amounts :
              add_money_request(p, c, i, a)
        \/ \E c \in AccountCredentials, i \in NamedIds : delete_goal_request(p, c, i)
        \/ \E c \in AccountCredentials, i \in NamedIds : toggle_rule_request(p, c, i)
        \/ \E c \in AccountCredentials, i \in NamedIds : delete_rule_request(p, c, i)
        \/ ContinueAuth(p)
        \/ create_goal(p)
        \/ create_rule(p)
        \/ add_money(p)
        \/ delete_goal(p)
        \/ toggle_rule(p)
        \/ delete_rule(p)
        \/ ContinueStore(p)

SpecNotFound == Init /\ [][NextNotFound]_vars


\* Every worker serves appends of R_a to, and deletes of its id from, the
\* incomes and the expenses of two users, the calls interleaving at the
\* files' reads and writes.
NextPartitions ==
    \E p \in Procs :
        \/ \E t \in DataTypes, u \in StoreUsers : add_record(p, t, u, R_a)
        \/ \E t \in DataTypes, u \in StoreUsers : delete_record(p, t, u, R_a.id)
        \/ save_data_truncate(p)
        \/ save_data_write(p)

SpecPartitions == Init /\ [][NextPartitions]_vars
(***************************************************************************)
(* Properties                                                              *)
(***************************************************************************)
\* the canonical form of an e-mail address: lower-cased and trimmed
Canonical(email) == strip(lower(email))

\* worker p has finished a request of kind op
Done(p, op) == pc[p] = "done" /\ call[p].op = op

Succeeded(p) == ~ret[p].raised

DuplicateAccount == HTTPException(400, "An account with this email already exists")
InvalidCredentials == HTTPException(401, "Invalid email or password")
Unauthenticated == HTTPException(401, "Not authenticated")
TokenInvalid ==
    {HTTPException(401, "Invalid or expired token"),
     HTTPException(401, "Invalid token format")}

Occurrences(list, x) == Cardinality({i \in 1..Len(list) : list[i] = x})

SamePartition(p, q) ==
    /\ call[p].user_id = call[q].user_id
    /\ call[p].data_type = call[q].data_type

\* C1: when the workers have each completed one append, all on the same
\* partition and of different records, the partition's list holds each
\* appended record exactly once.
C1_NoLostAppend ==
    (/\ \A p \in Procs : Done(p, "add_record")
     /\ \A p, q \in Procs : SamePartition(p, q) /\ (p # q => ret[p] # ret[q]))
        => \A p \in Procs :
              Occurrences(load_data(call[p].user_id, call[p].data_type),
                          ret[p].value) = 1

\* C2: when the process crashes during a mutating call, the collection the
\* file then holds is the complete list the call loaded or the complete list
\* it was writing.
C2_CrashKeepsPreOrPost ==
    [][Crash => \A p \in Procs :
                    InFlight(p) => read_list(data_files', loc[p].path)
                                      \in {loc[p].loaded, loc[p].data}]_vars

\* the successful signups of the address `email` canonicalises to
SignupsOf(email) ==
    {r \in issued : r.via = "signup" /\ Canonical(r.email) = Canonical(email)}

\* a signup of the same canonical address succeeded before the one p has finished
EarlierSignup(p) ==
    \E r \in SignupsOf(call[p].email) :
        ret[p].raised \/ r.token # ret[p].value.access_token

SignedUpOnce == \A e \in Emails : Cardinality(SignupsOf(e)) <= 1

ValidCredentialsGiven(p) ==
    /\ validate_email(call[p].email) = ""
    /\ Len(call[p].password) >= 6
    /\ Len(strip(call[p].full_name)) >= 2

\* C3 as stated: no address signs up twice, and every signup of an address
\* that passes validation and is already registered fails with DuplicateAccount.
C3_EveryLaterSignupIsDuplicate ==
    /\ SignedUpOnce
    /\ \A p \in Procs :
          Done(p, "signup") /\ validate_email(call[p].email) = "" /\ EarlierSignup(p)
              => ret[p] = DuplicateAccount

\* C3 as amended: no canonical address signs up twice; a signup whose address,
\* password and name are all valid succeeds when the address is not yet
\* registered and fails with DuplicateAccount when it is.
C3_SignupOncePerEmail ==
    /\ SignedUpOnce
    /\ \A p \in Procs :
          Done(p, "signup") /\ ValidCredentialsGiven(p)
              => IF EarlierSignup(p)
                 THEN ret[p] = DuplicateAccount
                 ELSE /\ Succeeded(p)
                      /\ ret[p].value.user.email = Canonical(call[p].email)

C3_Witness ==
    \E p \in Procs :
        /\ Done(p, "signup")
        /\ ValidCredentialsGiven(p)
        /\ call[p].email = E_new_user_variant
        /\ \E r \in SignupsOf(call[p].email) : r.email = E_new_user
        /\ ret[p] = DuplicateAccount

\* C4: of two finished signups of one canonical address exactly one
\* succeeded, the other failed with DuplicateAccount, and the stored account
\* has the id the successful one returned.
C4_OneSignupWins ==
    Quiescent =>
        \A p, q \in Procs :
            (/\ p # q
             /\ Done(p, "signup") /\ Done(q, "signup")
             /\ Canonical(call[p].email) = Canonical(call[q].email)
             /\ Succeeded(p))
                => /\ ret[q] = DuplicateAccount
                   /\ Canonical(call[p].email) \in DOMAIN load_users(users_file)
                   /\ load_users(users_file)[Canonical(call[p].email)].id
                          = ret[p].value.user.id

\* C5: after a successful signup, a login with the account's address and
\* password succeeds, and the token a login returned resolves to an identity
\* with the id the signup returned.
C5_LoginResolvesToSignupId ==
    \A p \in Procs :
        /\ Done(p, "login")
              => \A s \in SignupsOf(call[p].email) :
                    s.password = call[p].password
                        => Succeeded(p) /\ ret[p].value.user.id = s.id
        /\ Done(p, "get_current_user")
              => \A r \in issued :
                    r.via = "login" /\ call[p].credentials = Some(r.token)
                        => \A s \in SignupsOf(r.email) :
                              Succeeded(p) /\ ret[p].value.id = s.id

C5_Witness ==
    \E p \in Procs :
        /\ Done(p, "get_current_user")
        /\ Succeeded(p)
        /\ \E r \in issued :
              /\ r.via = "login"
              /\ call[p].credentials = Some(r.token)
              /\ \E s \in SignupsOf(r.email) : ret[p].value.id = s.id

\* C6: once no request is in progress, every token a signup or login
\* returned is mapped by the token registry to the account's address.
C6_IssuedTokensStayRegistered ==
    Quiescent =>
        \A r \in issued :
            DictGet(load_tokens(tokens_file), r.token, None) = Canonical(r.email)

\* C7: a failed login raises the same error whether or not the address is
\* registered: every login that fails raises one value, and on the accounts
\* of every state login's error for an unknown address equals its error for a
\* registered address with a wrong password.
C7_FailedLoginsAlike ==
    /\ \A p \in Procs : Done(p, "login") /\ ret[p].raised => ret[p] = InvalidCredentials
    /\ LET users == load_users(users_file)
       IN  \A e1, e2 \in Emails, pw1, pw2 \in Passwords :
              (/\ Canonical(e1) \notin DOMAIN users
               /\ Canonical(e2) \in DOMAIN users
               /\ hash_password(pw2, users[Canonical(e2)].password_salt)
                      # users[Canonical(e2)].password_hash)
                  => /\ login_error(users, Canonical(e1), pw1) # ""
                     /\ login_error(users, Canonical(e1), pw1)
                            = login_error(users, Canonical(e2), pw2)

C7_Witness ==
    \E p \in Procs :
        /\ Done(p, "login")
        /\ ret[p] = InvalidCredentials
        /\ Canonical(call[p].email) \in DOMAIN load_users(users_file)
        /\ \E e \in Emails : Canonical(e) \notin DOMAIN load_users(users_file)

\* C8: for a credential other than the demo sentinel, get_current_user
\* raises Unauthenticated when there is no credential, returns an identity
\* only for a token the registry maps to an address that has an account (the
\* identity of that account), and raises TokenInvalid for a token the
\* registry lacks or whose account is missing.
C8_ResolveOnlyRegisteredTokens ==
    \A p \in Procs :
        Done(p, "get_current_user") /\ call[p].credentials # Some("demo-token")
            => LET tokens == load_tokens(tokens_file)
                   users  == load_users(users_file)
                   c      == call[p].credentials
               IN  IF c = None THEN ret[p] = Unauthenticated
                   ELSE /\ Succeeded(p)
                              => /\ c[1] \in DOMAIN tokens
                                 /\ tokens[c[1]] \in DOMAIN users
                                 /\ ret[p].value.id = users[tokens[c[1]]].id
                                 /\ ret[p].value.email = tokens[c[1]]
                                 /\ ~ret[p].value.is_demo
                        /\ (c[1] \notin DOMAIN tokens \/ tokens[c[1]] \notin DOMAIN users)
                              => ret[p] \in TokenInvalid

C8_Witness ==
    \E p \in Procs :
        /\ Done(p, "get_current_user")
        /\ call[p].credentials # None
        /\ call[p].credentials[1] \in DOMAIN load_tokens(tokens_file)
        /\ load_tokens(tokens_file)[call[p].credentials[1]]
              \notin DOMAIN load_users(users_file)
        /\ ret[p] \in TokenInvalid

\* registries the demo sentinel is resolved against: the present one, none,
\* an unreadable one, and one with an entry keyed by the sentinel itself
SentinelRegistries ==
    {tokens_file, Absent, Torn,
     Written(DictPut(load_tokens(tokens_file), "demo-token", Canonical(E_new_user)))}

\* C9: "demo-token" resolves to the fixed demo identity (id demo-user-001,
\* is_demo true) in every state of the registries, also against a registry
\* that has an entry keyed by the sentinel, and the request never comes to
\* read a registry.
C9_DemoTokenFixed ==
    /\ \A p \in Procs :
          call[p].op = "get_current_user" /\ call[p].credentials = Some("demo-token")
              => /\ pc[p] = "done"
                 /\ Succeeded(p)
                 /\ ret[p].value.id = "demo-user-001"
                 /\ ret[p].value.is_demo
                 /\ ret[p].value = DEMO_USER
    /\ \A tokens \in SentinelRegistries, users \in {users_file, Absent, Torn} :
          resolve(Some("demo-token"), tokens, users)
              = [kind |-> "return", user |-> DEMO_USER]

C9_Witness ==
    \E p \in Procs :
        /\ Done(p, "get_current_user")
        /\ call[p].credentials = Some("demo-token")
        /\ ret[p] = Returned(DEMO_USER)
        /\ load_tokens(tokens_file) # EmptyDict
        /\ load_users(users_file) # EmptyDict

\* C10: once a POST /incomes of an account has completed, the account's
\* is_new_account is false.
C10_ActiveAfterFirstMutation ==
    \A p \in Procs :
        Done(p, "create_income") /\ Succeeded(p)
            => \A e \in DOMAIN load_users(users_file) :
                  load_users(users_file)[e].id = ret[p].value.user_id
                      => ~load_users(users_file)[e].is_new_account

\* the account, if any, the registry holds for the address `email` canonicalises to
AccountOf(email) == DictGet(load_users(users_file), Canonical(email), None)

\* the registry holds the account the one successful signup of `email` created
HoldsSignedUpAccount(email) ==
    /\ Cardinality(SignupsOf(email)) = 1
    /\ AccountOf(email) # None
    /\ \A s \in SignupsOf(email) : AccountOf(email).id = s.id

\* C11: once markActive has completed for an account that had signed up, the
\* account, as long as the registry holds it, has is_new_account false,
\* whatever signups, logins, markActive calls and admin bootstraps ran
\* alongside.
C11_ActiveIsAbsorbing ==
    Quiescent =>
        \A p \in Procs :
            Done(p, "mark_account_active") /\ HoldsSignedUpAccount(call[p].email)
                => ~AccountOf(call[p].email).is_new_account

\* C12: once no request is in progress, the registry holds, for every address
\* that signed up (once), an account with the id the signup returned.
C12_AccountsKeepTheirId ==
    Quiescent =>
        \A r \in issued :
            r.via = "signup" /\ Cardinality(SignupsOf(r.email)) = 1
                => /\ AccountOf(r.email) # None
                   /\ AccountOf(r.email).id = r.id

\* the accounts of the registry that carry is_admin = true
Admins ==
    {e \in DOMAIN load_users(users_file) :
        DictGet(load_users(users_file)[e], "is_admin", FALSE)}

\* C13: the only account with is_admin true is the one the admin bootstrap
\* creates at the fixed admin address; no signup succeeds for that address
\* (it fails validation of the provider); and get_current_user returns
\* is_admin true for no token of an account created through signup.
C13_OnlyBootstrapMakesAdmin ==
    /\ Admins \subseteq {admin_email}
    /\ \A r \in issued : r.via = "signup" => Canonical(r.email) # admin_email
    /\ \A p \in Procs :
          /\ Done(p, "signup") /\ Canonical(call[p].email) = admin_email
                => ret[p] = HTTPException(400, InvalidEmailProvider)
          /\ Done(p, "get_current_user") /\ Succeeded(p)
                => (DictGet(ret[p].value, "is_admin", FALSE)
                       <=> ret[p].value.email = admin_email)
          /\ Done(p, "get_current_user") /\ Succeeded(p)
                /\ SignupsOf(ret[p].value.email) # {}
                => ~DictGet(ret[p].value, "is_admin", FALSE)

C13_Witness ==
    \E p \in Procs :
        /\ Done(p, "get_current_user")
        /\ Succeeded(p)
        /\ SignupsOf(ret[p].value.email) # {}
        /\ ~DictGet(ret[p].value, "is_admin", FALSE)
        /\ Admins = {admin_email}

\* the text a goal's target date is stored as
TargetDateText(d) ==
    CASE d = [year |-> 2026, month |-> 3, day |-> 9] -> "2026-03-09"
      [] d = [year |-> 2025, month |-> 12, day |-> 31] -> "2025-12-31"

\* what list(u, "goals") yields for the identity whose request worker p served
GoalsListed(p) ==
    IF call[p].credentials = Some("demo-token")
    THEN SelectSeq(demo_goals[p], LAMBDA g : g.user_id = "demo-user-001")
    ELSE load_data(ret[p].value.user_id, "goals")

\* C14: after a goal g has been appended, the list of the user's goals holds
\* a record that has g's name, target amount, target date, icon and monthly
\* contribution, and an id and a created_at.
C14_GoalRoundTrip ==
    \A p \in Procs :
        Done(p, "create_goal") /\ Succeeded(p)
            => \E i \in 1..Len(GoalsListed(p)) :
                  LET r == GoalsListed(p)[i]
                      g == call[p].body
                  IN  /\ r.name = g.name
                      /\ r.target_amount = g.target_amount
                      /\ r.target_date = TargetDateText(g.target_date)
                      /\ r.icon = g.icon
                      /\ r.monthly_contribution = g.monthly_contribution
                      /\ "id" \in DOMAIN r
                      /\ "created_at" \in DOMAIN r

C14_Witness ==
    \E p \in Procs :
        /\ Done(p, "create_goal")
        /\ Succeeded(p)
        /\ call[p].credentials # Some("demo-token")
        /\ call[p].body.name = "Bike"
        /\ Len(GoalsListed(p)) = 2
        /\ GoalsListed(p)[2] = ret[p].value

\* the stored list of the partition a store request of worker p names
PartitionOf(p) == load_data(call[p].user_id, call[p].data_type)

\* C15: a delete whose id is in the partition goes on to write and returns
\* true, a delete whose id is not returns false at once, and after either the
\* id is in the partition no more: of the deletes of one id, with no append
\* of it in between, the first alone returns true.
C15_DeleteTrueOnce ==
    [][\A p \in Procs :
          /\ CanStart(p) /\ call'[p].op = "delete_record"
                => IF call'[p].record_id
                        \in IdsOf(load_data(call'[p].user_id, call'[p].data_type))
                   THEN pc'[p] = "save_data"
                   ELSE pc'[p] = "done" /\ ret'[p] = Returned(FALSE)
          /\ pc[p] = "save_data_write" /\ call[p].op = "delete_record"
                => pc'[p] = "done" /\ ret'[p] = Returned(TRUE)
          /\ pc'[p] = "done" /\ call'[p].op = "delete_record"
                => call'[p].record_id
                      \notin IdsOf(read_list(data_files',
                                get_user_file(call'[p].user_id, call'[p].data_type)))
      ]_vars

C15_Witness ==
    \E p \in Procs :
        /\ Done(p, "delete_record")
        /\ ret[p] = Returned(TRUE)
        /\ Len(PartitionOf(p)) = 1
        /\ call[p].record_id \notin IdsOf(PartitionOf(p))

\* C16: no two records of a partition share an id.
C16_IdsUniqueInPartition ==
    \A path \in DOMAIN data_files :
        LET records == read_list(data_files, path)
        IN  \A i, j \in 1..Len(records) :
                (/\ i < j
                 /\ "id" \in DOMAIN records[i]
                 /\ "id" \in DOMAIN records[j])
                    => records[i].id # records[j].id

\* C17: the document an append returns, and stores last in the partition,
\* carries an id and a created_at, and keeps the values the caller supplied.
C17_AppendAssignsIdAndCreatedAt ==
    \A p \in Procs :
        Done(p, "add_record")
            => /\ "id" \in DOMAIN ret[p].value
               /\ "created_at" \in DOMAIN ret[p].value
               /\ \A k \in DOMAIN call[p].record \ {"user_id"} :
                     ret[p].value[k] = call[p].record[k]
               /\ PartitionOf(p)[Len(PartitionOf(p))] = ret[p].value

\* C18: every record a collection file holds carries the user_id of the
\* user whose file it is, in all four collections.
C18_RecordsCarryTheirPartition ==
    \A path \in DOMAIN data_files :
        LET records == read_list(data_files, path)
        IN  \A i \in 1..Len(records) :
                /\ "user_id" \in DOMAIN records[i]
                /\ \E t \in {"incomes", "expenses", "rules", "goals"} :
                      path = records[i].user_id \o "_" \o t \o ".json"

C18_Witness ==
    /\ load_data("user-1", "goals") # <<>>
    /\ \E i \in 1..Len(load_data("user-1", "expenses")) :
          /\ load_data("user-1", "expenses")[i].id = "doc-b"
          /\ load_data("user-1", "expenses")[i].user_id = "user-1"

\* a is the start of b
IsPrefix(a, b) == Len(a) <= Len(b) /\ SubSeq(b, 1, Len(a)) = a

\* a is b with some of its elements left out, the others in b's order
RECURSIVE IsSubsequence(_, _)
IsSubsequence(a, b) ==
    IF a = <<>> THEN TRUE
    ELSE IF b = <<>> THEN FALSE
    ELSE IF Head(a) = Head(b) THEN IsSubsequence(Tail(a), Tail(b))
    ELSE IsSubsequence(a, Tail(b))

\* the list worker p's write leaves in the partition it names
Persisted(p) == read_list(data_files', get_user_file(call[p].user_id, call[p].data_type))

\* C19: the store keeps insertion order. An append and a delete work on the
\* list as stored when they arrive; the append's write leaves that list with
\* the returned record added at its end, the delete's write leaves the
\* records of other ids in the order they had, and a list returns the stored
\* list as it is and writes nothing.
C19_InsertionOrder ==
    [][\A p \in Procs :
          /\ CanStart(p) /\ pc'[p] = "save_data"
                => /\ loc'[p].loaded
                        = load_data(call'[p].user_id, call'[p].data_type)
                   /\ data_files' = data_files
          /\ pc[p] = "save_data_write" /\ call[p].op = "add_record"
                => /\ IsPrefix(loc[p].loaded, Persisted(p))
                   /\ Len(Persisted(p)) = Len(loc[p].loaded) + 1
                   /\ Persisted(p)[Len(Persisted(p))] = ret'[p].value
          /\ pc[p] = "save_data_write" /\ call[p].op = "delete_record"
                => /\ IsSubsequence(Persisted(p), loc[p].loaded)
                   /\ Len(Persisted(p))
                        = Cardinality({i \in 1..Len(loc[p].loaded) :
                              ~(/\ "id" \in DOMAIN loc[p].loaded[i]
                                /\ loc[p].loaded[i].id = call[p].record_id)})
                   /\ call[p].record_id \notin IdsOf(Persisted(p))
          /\ CanStart(p) /\ call'[p].op = "get_records"
                => /\ pc'[p] = "done"
                   /\ ret'[p] = Returned(load_data(call'[p].user_id, call'[p].data_type))
                   /\ data_files' = data_files
      ]_vars

C19_Witness ==
    \E p \in Procs :
        /\ Done(p, "delete_record")
        /\ ret[p] = Returned(TRUE)
        /\ call[p].record_id = "doc-b"
        /\ PartitionOf(p) = <<stamp(call[p].user_id, R_a), stamp(call[p].user_id, R_c)>>

\* the list that add_income(user_id, r), called for each r of records in
\* order, makes of the list `stored`
RECURSIVE AppendEach(_, _, _)
AppendEach(stored, user_id, records) ==
    IF records = <<>> THEN stored
    ELSE AppendEach(Append(stored, stamp(user_id, Head(records))), user_id, Tail(records))

\* C20: a bulk append of no records returns 0 at once and writes no file;
\* a bulk append of records works on the list as stored when it arrives,
\* and its one write leaves the list that appending the records one by one
\* in order would leave, and returns their number.
C20_BulkIsRepeatedAppend ==
    [][\A p \in Procs :
          /\ CanStart(p) /\ call'[p].op = "add_records_bulk"
                => IF call'[p].records = <<>>
                   THEN /\ pc'[p] = "done"
                        /\ ret'[p] = Returned(0)
                        /\ data_files' = data_files
                   ELSE /\ pc'[p] = "save_data"
                        /\ loc'[p].loaded
                              = load_data(call'[p].user_id, call'[p].data_type)
                        /\ data_files' = data_files
          /\ pc[p] = "save_data_write" /\ call[p].op = "add_records_bulk"
                => /\ pc'[p] = "done"
                   /\ ret'[p] = Returned(Len(call[p].records))
                   /\ Persisted(p)
                        = AppendEach(loc[p].loaded, call[p].user_id, call[p].records)
      ]_vars

C20_Witness ==
    \E p \in Procs :
        /\ Done(p, "add_records_bulk")
        /\ ret[p] = Returned(2)
        /\ Len(PartitionOf(p)) = 3
        /\ SubSeq(PartitionOf(p), 2, 3)
              = <<stamp(call[p].user_id, R_a), stamp(call[p].user_id, R_b)>>

\* the goals held: those of the goal files and those of the workers' memory
GoalsHeld(files, memory) ==
    UNION {{read_list(files, path)[i] : i \in 1..Len(read_list(files, path))}
              : path \in DOMAIN files}
        \cup UNION {{memory[p][i] : i \in 1..Len(memory[p])} : p \in Procs}

\* list `after` is list `before` with the first goal of the id given the
\* amount, up to its target, and every other goal as it was
Contributed(before, after, goal_id, amount) ==
    LET first == FirstIndex({k \in 1..Len(before) : before[k].id = goal_id})
    IN  /\ first # 0
        /\ Len(after) = Len(before)
        /\ \A k \in 1..Len(before) :
              IF k = first
              THEN /\ after[k].current_amount >= before[k].current_amount
                   /\ after[k].current_amount <= before[k].target_amount
                   /\ after[k].current_amount
                        = Min(before[k].current_amount + amount, before[k].target_amount)
                   /\ [after[k] EXCEPT !.current_amount = 0]
                        = [before[k] EXCEPT !.current_amount = 0]
              ELSE after[k] = before[k]

\* C21: every goal held has 0 <= current_amount <= target_amount, and a
\* contribution that finds its goal sets the goal's current_amount to
\* min(current_amount + amount, target_amount), which is no less than
\* before and no more than the target, and changes nothing else.
C21_ContributionClamped ==
    [][/\ \A g \in GoalsHeld(data_files', demo_goals') :
             0 <= g.current_amount /\ g.current_amount <= g.target_amount
       /\ \A p \in Procs :
             /\ pc[p] = "save_data_write" /\ call[p].op = "add_money"
                   => /\ Contributed(loc[p].loaded, read_list(data_files', loc[p].path),
                                     call[p].goal_id, call[p].amount)
                      /\ ret'[p].value \in GoalsHeld(data_files', demo_goals')
             /\ pc[p] = "add_money" /\ pc'[p] = "done" /\ ~ret'[p].raised
                   => /\ Contributed(seed_demo_goals(p), demo_goals'[p],
                                     call[p].goal_id, call[p].amount)
                      /\ ret'[p].value \in GoalsHeld(data_files', demo_goals')
      ]_vars

C21_Witness ==
    /\ \E g \in GoalsHeld(data_files, demo_goals) :
          /\ g.user_id = "user-1"
          /\ g.name = "Trip"
          /\ g.current_amount = g.target_amount
    /\ \E p \in Procs :
          /\ Done(p, "add_money")
          /\ ~ret[p].raised
          /\ ret[p].value.current_amount = 50000

\* C22: when every worker has completed its call on the partition, the list
\* is one that some order of the calls leaves: the id of a delete that
\* returned true, which no call appends again, is absent, and the record of
\* every completed append, whose id no delete names, is present once.
C22_ConcurrentCallsSerialized ==
    (\A p \in Procs : pc[p] = "done")
        => \A p \in Procs :
              /\ call[p].op = "delete_record" /\ ret[p] = Returned(TRUE)
                    /\ (\A q \in Procs : call[q].op = "add_record"
                            => DictGet(call[q].record, "id", None) # call[p].record_id)
                    => call[p].record_id \notin IdsOf(PartitionOf(p))
              /\ call[p].op = "add_record"
                    /\ (\A q \in Procs : call[q].op = "delete_record"
                            => DictGet(call[p].record, "id", None) # call[q].record_id)
                    => Occurrences(PartitionOf(p), ret[p].value) = 1

\* the lists stored in, or on their way to, the file at path: what the file
\* holds when it holds a list, and what a call in progress on it loaded
\* and is writing
Versions(path) ==
    (IF path \notin DOMAIN data_files THEN {<<>>}
     ELSE IF data_files[path].state = "ok" THEN {data_files[path].data}
     ELSE {})
        \cup UNION {{loc[q].loaded, loc[q].data} :
                        q \in {w \in Procs : InFlight(w) /\ loc[w].path = path}}

\* C23: a list returns a list that was stored or is being stored in the
\* partition: the content before a concurrent write or the content after it.
C23_ReadSeesStoredVersion ==
    [][\A p \in Procs :
          CanStart(p) /\ call'[p].op = "get_records" /\ pc'[p] = "done"
                /\ call'[p] # call[p]
             => /\ ~ret'[p].raised
                /\ ret'[p].value
                      \in Versions(get_user_file(call'[p].user_id, call'[p].data_type))
      ]_vars

\* the signup worker p starts must be rejected: the address is invalid, the
\* password has fewer than 6 characters, the trimmed name fewer than 2, or
\* the address has an account
MustReject(p) ==
    \/ validate_email(normalize_email(call'[p].email)) # ""
    \/ Len(call'[p].password) < 6
    \/ Len(strip(call'[p].full_name)) < 2
    \/ normalize_email(call'[p].email) \in DOMAIN load_users(users_file)

SuspiciousWords ==
    {<<"t","e","m","p">>, <<"f","a","k","e">>, <<"t","e","s","t">>,
     <<"e","x","a","m","p","l","e">>, <<"r","a","n","d","o","m">>, <<"a","s","d","f">>}

\* the domain of the address a signup carries holds a word of the deny-list
HasSuspiciousWord(email) ==
    /\ \E i \in 1..Len(email) : email[i] = "@"
    /\ \E w \in SuspiciousWords : Contains(DomainOf(strip(lower(email))), w)

InvalidEmail ==
    {HTTPException(400, InvalidEmailFormat), HTTPException(400, InvalidEmailProvider)}

AccountIds == {load_users(users_file)[e].id : e \in DOMAIN load_users(users_file)}

\* the collection files of the accounts that hold a list
ReadableFiles(data_type) ==
    {path \in DOMAIN data_files :
        /\ data_files[path].state = "ok"
        /\ \E u \in AccountIds : path = get_user_file(u, data_type)}

\* the accounts one of whose three collections is missing or does not parse
AccountsWithUnreadable ==
    {u \in AccountIds :
        \E t \in {"incomes", "expenses", "rules"} :
            \/ get_user_file(u, t) \notin DOMAIN data_files
            \/ data_files[get_user_file(u, t)].state # "ok"}

\* the amounts of the records of the files `paths`, added up
RECURSIVE TotalOf(_)
TotalOf(paths) ==
    IF paths = {} THEN 0
    ELSE LET path == CHOOSE x \in paths : TRUE
         IN  SumAmounts(data_files[path].data) + TotalOf(paths \ {path})

\* the values of a tally, added up
RECURSIVE TallyTotal(_, _)
TallyTotal(tally, keys) ==
    IF keys = {} THEN 0
    ELSE LET key == CHOOSE x \in keys : TRUE
         IN  tally[key] + TallyTotal(tally, keys \ {key})

\* the records of the files `paths` with an amount of `least` and more
RECURSIVE CountFrom(_, _)
CountFrom(paths, least) ==
    IF paths = {} THEN 0
    ELSE LET path == CHOOSE x \in paths : TRUE
             list == data_files[path].data
         IN  Cardinality({k \in 1..Len(list) : DictGet(list[k], "amount", 0) >= least})
                + CountFrom(paths \ {path}, least)

\* an admin report of worker p has ended, and it was an admin who asked
Reported(p, op) == Done(p, op) /\ ret[p] # HTTPException(403, "Admin access required")

StoredRules ==
    UNION {{data_files[path].data[k] : k \in 1..Len(data_files[path].data)}
              : path \in ReadableFiles("rules")}

\* C30: the dashboard tallies every stored rule under the field of the
\* condition it was created with.
C30_RuleTalliedUnderItsField ==
    \A p \in Procs :
        Reported(p, "get_admin_dashboard") /\ ~ret[p].raised
            => \A rule \in StoredRules :
                  /\ rule.conditions[1].field \in DOMAIN ret[p].value.rule_usage
                  /\ ret[p].value.rule_usage[rule.conditions[1].field]
                        = Cardinality({r \in StoredRules :
                              r.conditions[1].field = rule.conditions[1].field})

\* the collection a route's body works on
CollectionOf(op) == IF op \in {"add_money", "delete_goal"} THEN "goals" ELSE "rules"

\* the id of the record the request of worker p names
NamedId(p) == IF "goal_id" \in DOMAIN call[p] THEN call[p].goal_id ELSE call[p].rule_id

\* the request of worker p names no record of its caller's partition
NamesNoRecord(p) ==
    IF is_demo(loc[p].user) /\ CollectionOf(call[p].op) = "goals"
    THEN \A k \in 1..Len(seed_demo_goals(p)) :
            ~(/\ seed_demo_goals(p)[k].id = NamedId(p)
              /\ seed_demo_goals(p)[k].user_id = loc[p].user.id)
    ELSE NamedId(p) \notin IdsOf(load_data(loc[p].user.id, CollectionOf(call[p].op)))

\* C27: a delete of an id the partition does not hold returns false, and an
\* add-money, a goal delete, a rule toggle and a rule delete that name an id
\* the caller's partition does not hold end with 404; each ends at once,
\* with no file written and the caller's goals in memory as they were.
C27_NotFoundWritesNothing ==
    [][\A p \in Procs :
          /\ CanStart(p) /\ call'[p].op = "delete_record" /\ call'[p] # call[p]
                /\ call'[p].record_id
                      \notin IdsOf(load_data(call'[p].user_id, call'[p].data_type))
                => /\ pc'[p] = "done"
                   /\ ret'[p] = Returned(FALSE)
                   /\ data_files' = data_files
          /\ pc[p] \in {"add_money", "delete_goal", "toggle_rule", "delete_rule"}
                /\ NamesNoRecord(p)
                => /\ pc'[p] = "done"
                   /\ ret'[p].raised
                   /\ ret'[p].status_code = 404
                   /\ data_files' = data_files
                   /\ demo_goals'[p] =
                         IF is_demo(loc[p].user) /\ CollectionOf(call[p].op) = "goals"
                         THEN seed_demo_goals(p)
                         ELSE demo_goals[p]
      ]_vars

C27_Witness ==
    \E p \in Procs :
        /\ Done(p, "add_money")
        /\ ret[p] = HTTPException(404, "Goal not found")
        /\ call[p].goal_id \in IdsOf(load_data("user-1", "rules"))
        /\ call[p].credentials \in AccountCredentials
        /\ load_data("user-1", "goals") # <<>>
        /\ \A k \in 1..Len(load_data("user-1", "goals")) :
              load_data("user-1", "goals")[k].current_amount = 0


\* the partitions of the store
Partitions == StoreUsers \X DataTypes

\* the file of partition part, as it is on the disk
PartitionFile(files, part) ==
    IF get_user_file(part[1], part[2]) \in DOMAIN files
    THEN files[get_user_file(part[1], part[2])]
    ELSE Absent

\* worker p is writing the file of partition part
Writing(p, part) ==
    /\ pc[p] \in {"save_data", "save_data_write"}
    /\ call[p].op \in {"add_record", "delete_record"}
    /\ <<call[p].user_id, call[p].data_type>> = part

\* C28: a step changes the file of a partition only if it is a write of a
\* call on that partition, whatever calls on other partitions are in
\* progress, and no file but the partitions' exists; a delete whose id is
\* held by other partitions only returns false and changes no file.
C28_OtherPartitionsUnchanged ==
    [][/\ \A part \in Partitions :
              PartitionFile(data_files', part) # PartitionFile(data_files, part)
                 => \E p \in Procs : Writing(p, part) /\ pc'[p] # pc[p]
       /\ DOMAIN data_files'
             \subseteq {get_user_file(part[1], part[2]) : part \in Partitions}
       /\ \A p \in Procs :
              /\ CanStart(p) /\ call'[p].op = "delete_record" /\ pc'[p] # "idle"
              /\ \/ pc[p] # pc'[p]
                 \/ call'[p] # call[p]
              /\ call'[p].record_id
                    \notin IdsOf(load_data(call'[p].user_id, call'[p].data_type))
              /\ \E part \in Partitions :
                    call'[p].record_id \in IdsOf(load_data(part[1], part[2]))
              => /\ pc'[p] = "done"
                 /\ ret'[p] = Returned(FALSE)
                 /\ data_files' = data_files
      ]_vars

C28_Witness ==
    \E p, q \in Procs :
        /\ Done(p, "delete_record")
        /\ ret[p] = Returned(FALSE)
        /\ \E u \in StoreUsers \ {call[p].user_id} :
              call[p].record_id \in IdsOf(load_data(u, call[p].data_type))
        /\ \E t \in DataTypes \ {call[p].data_type} :
              call[p].record_id \in IdsOf(load_data(call[p].user_id, t))
        /\ pc[q] = "save_data_write"
        /\ <<call[q].user_id, call[q].data_type>> # <<call[p].user_id, call[p].data_type>>

\* C29: once the signups and logins the workers served have all completed,
\* every token of the token registry maps to an address that has an account
\* in the accounts registry.
C29_RegisteredTokensHaveAccounts ==
    Quiescent =>
        \A t \in DOMAIN load_tokens(tokens_file) :
            load_tokens(tokens_file)[t] \in DOMAIN load_users(users_file)
====
